---- MODULE Spec2Model ----
(***************************************************************************)
(* Batch task submission and run logging of robogen-modal:                 *)
(*   - modal/run_tasks_batch.py   sequential runner with the CSV run log   *)
(*   - modal/update_toml_log.py   maintenance routine back-filling the log *)
(*   - modal/run_batch_tasks.py   parallel runner (thread pool of 5)       *)
(* The CSV file is modelled at line granularity: a sequence of lines, each *)
(* line a sequence of field strings, the first line being the header.      *)
(***************************************************************************)
EXTENDS Integers, Sequences, FiniteSets, TLC

VARIABLES
    csv_exists,      \* os.path.exists(csv_path)
    csv_lines,       \* contents of the CSV file, one entry per line
    clock,           \* wall clock read by datetime.now()
    volume,          \* remote volume: output directory -> listed .toml names
    \* ---- run_tasks_batch.py main()
    args,            \* parsed command line
    tasks,           \* loaded task descriptions
    pc,              \* position of main()
    task_pos,        \* position of the outer loop in tasks (1-based)
    run_num,         \* inner loop variable
    current_run,     \* counter of attempts started
    result,          \* dict returned by run_task_generation
    status,          \* status determined for the attempt
    exc,             \* text of the exception being handled
    invocations,     \* (task position, run_num) of every external invocation made
    listed,          \* directories of the volume listing calls the runner made
    logged,          \* (task position, run_num) of every row this run appended
    slept,           \* number of time.sleep calls that returned
    exit_code,       \* exit code of the runner process (-1 while it runs)
    \* ---- update_toml_log.py update_csv_with_toml_files()
    m_pc,            \* position of the maintenance routine
    dry_run,         \* its dry_run parameter
    fieldnames,      \* reader.fieldnames
    rows,            \* the rows read, as dicts
    rows_to_update,  \* indices (1-based) of the candidate rows
    m_k,             \* position of the update loop in rows_to_update
    updated_count,   \* rows changed in memory
    queried,         \* output directories listed so far by this run
    csv_at_start,    \* file contents when the maintenance run started
    answered,        \* per run, the (directory, result) of its listing calls
    \* ---- run_batch_tasks.py main()
    p_pc,            \* position of the coordinating thread
    p_tasks,         \* tasks loaded from the JSON file
    unit,            \* state of every submitted future
    successful_tasks,
    failed_tasks,
    p_exit_code,
    p_cwd,           \* working directory of the runner process
    \* ---- a caller of the run logger (init_csv_log, log_task_run, read)
    l_op,            \* the last call made: "none", "init", "append" or "read"
    l_inits,         \* number of init_csv_log calls made
    l_record,        \* arguments of the last log_task_run call
    l_rows,          \* rows returned by the last read of the file
    \* ---- a single call of one function of the program
    call_fn,         \* the function called ("" before the call)
    call_arg,        \* its arguments
    call_ret,        \* what it returned
    \* ---- the file system
    task_files,      \* the runners' task input files (never written)
    \* ---- robogen_modal_conda.py main()
    pipe             \* position, arguments and locals of the pipeline entrypoint

vars == <<csv_exists, csv_lines, clock, volume,
          args, tasks, pc, task_pos, run_num, current_run, result, status, exc,
          invocations, listed, logged, slept, exit_code,
          m_pc, dry_run, fieldnames, rows, rows_to_update, m_k, updated_count,
          queried, csv_at_start,
          p_pc, p_tasks, unit, successful_tasks, failed_tasks, p_exit_code, p_cwd,
          l_op, l_inits, l_record, l_rows, call_fn, call_arg, call_ret, task_files, answered, pipe>>

file_vars == <<csv_exists, csv_lines, clock>>
seq_vars == <<args, tasks, pc, task_pos, run_num, current_run, result, status, exc,
              invocations, listed, logged, slept, exit_code>>
maint_vars == <<m_pc, dry_run, fieldnames, rows, rows_to_update, m_k, updated_count,
                queried, csv_at_start>>
par_vars == <<p_pc, p_tasks, unit, successful_tasks, failed_tasks, p_exit_code,
              p_cwd>>
log_vars == <<l_op, l_inits, l_record, l_rows>>
call_vars == <<call_fn, call_arg, call_ret>>

----------------------------------------------------------------------------
(* Bounds of the model *)

MaxRuns == 2        \* largest --runs-per-task tried
MaxAttempts == 4    \* most attempts (tasks times runs per task) of a batch tried
MaxRows == 2        \* most rows in a log that exists before a run starts
MaxInits == 3       \* most init_csv_log calls of a caller of the run logger
MaxLen == 4         \* most tokens of a captured output tried
MaxChars == 5       \* most characters of a task file tried
MaxPos == 3         \* largest --start-from and --max-tasks tried
MaxMaintRuns == 2   \* most maintenance runs made in a row
MaxDirs == 3        \* most folders of the statistics root tried

----------------------------------------------------------------------------
(* Values *)

\* Python's None, where a field may hold a string or None
None == "<None>"

\* mutant: str(x) in place of x or ""
OrEmpty_Str(x) == IF x = None THEN "None" ELSE x

\* x or "" (log_task_run) : None and "" both give the default
OrEmpty(x) == IF x = None \/ x = "" THEN "" ELSE x

Digit == <<"0", "1", "2", "3", "4", "5", "6", "7", "8", "9">>

RECURSIVE Str(_)
\* str(n) for n >= 0, as csv.writer formats an int field
Str(n) == IF n < 10 THEN Digit[n + 1] ELSE Str(n \div 10) \o Digit[(n % 10) + 1]

\* datetime.now().isoformat(): a string that differs at every clock reading
IsoFormat(t) == "T" \o Str(t)

RECURSIVE Join(_, _)
\* sep.join(list)
Join(sep, list) ==
    IF list = <<>> THEN ""
    ELSE IF Len(list) = 1 THEN list[1]
    ELSE list[1] \o sep \o Join(sep, Tail(list))

Range(s) == {s[i] : i \in 1..Len(s)}

IsPrefix(s, t) == Len(s) <= Len(t) /\ SubSeq(t, 1, Len(s)) = s

----------------------------------------------------------------------------
(* The CSV log: csv.DictWriter / csv.DictReader *)

\* the fieldnames list of init_csv_log and log_task_run
Header == <<"timestamp", "task_description", "model_name", "model_provider",
            "run_number", "status", "app_id", "output_directory", "toml_files",
            "notes">>

\* DictWriter.writerow: the values of the dict in fieldnames order
WriteRow(names, d) == [i \in 1..Len(names) |-> d[names[i]]]

\* DictReader: a line becomes a dict keyed by the header's names; when a name
\* occurs twice in the header the later column wins (dict(zip(...)))
ReadRow(names, line) ==
    [n \in Range(names) |->
        line[CHOOSE i \in 1..Len(names) :
                /\ names[i] = n
                /\ \A j \in 1..Len(names) : names[j] = n => j <= i]]

\* row.get(key): None when the dict has no such key
Get(d, key) == IF key \in DOMAIN d THEN d[key] ELSE None

\* truthiness of a str-or-None value
Truthy(x) == x # None /\ x # ""

----------------------------------------------------------------------------
(* Captured output of the external tool, as a sequence of tokens.  " " and  *)
(* "\n" are the whitespace tokens; every other token is a run of            *)
(* non-whitespace characters.                                               *)

Whitespace == {" ", "\n"}

\* the literal of parse_output_directory's pattern
DirLiteral == "data/generated_task_from_description/"

RECURSIVE Concat(_)
Concat(toks) == IF toks = <<>> THEN "" ELSE toks[1] \o Concat(Tail(toks))

RECURSIVE RStripSlash(_)
\* str.rstrip("/") on a token sequence whose slashes are tokens of their own
RStripSlash(toks) ==
    IF toks # <<>> /\ toks[Len(toks)] = "/"
    THEN RStripSlash(SubSeq(toks, 1, Len(toks) - 1))
    ELSE toks

\* end of the run of non-whitespace tokens that starts at position i
RunEnd(text, i) ==
    CHOOSE j \in i..Len(text) :
        /\ \A k \in i..j : text[k] \notin Whitespace
        /\ (j = Len(text) \/ text[j + 1] \in Whitespace)

\* positions where the pattern literal/([^\s\n]+) matches
MatchStarts(text) ==
    {i \in 1..Len(text) :
        text[i] = DirLiteral /\ i < Len(text) /\ text[i + 1] \notin Whitespace}

\* mutant: the match is returned with its trailing slashes
parse_output_directory_NoStrip(stdout_text) ==
    IF MatchStarts(stdout_text) = {} THEN None
    ELSE LET i == CHOOSE m \in MatchStarts(stdout_text) :
                      \A n \in MatchStarts(stdout_text) : m <= n
         IN  Concat(SubSeq(stdout_text, i + 1, RunEnd(stdout_text, i + 1)))

\* parse_output_directory: first match, trailing slashes stripped, else None
parse_output_directory(stdout_text) ==
    IF MatchStarts(stdout_text) = {} THEN None
    ELSE LET i == CHOOSE m \in MatchStarts(stdout_text) :
                      \A n \in MatchStarts(stdout_text) : m <= n
         IN  Concat(RStripSlash(SubSeq(stdout_text, i + 1, RunEnd(stdout_text, i + 1))))

RECURSIVE SplitLines(_)
\* str.split("\n")
SplitLines(text) ==
    IF \E i \in 1..Len(text) : text[i] = "\n"
    THEN LET i == CHOOSE m \in 1..Len(text) :
                      text[m] = "\n" /\ \A n \in 1..(m - 1) : text[n] # "\n"
         IN  <<SubSeq(text, 1, i - 1)>> \o SplitLines(SubSeq(text, i + 1, Len(text)))
    ELSE <<text>>

RECURSIVE SplitWords(_)
\* str.split(): the maximal runs of non-whitespace tokens, each as a token sequence
SplitWords(line) ==
    IF line = <<>> THEN <<>>
    ELSE IF line[1] \in Whitespace THEN SplitWords(Tail(line))
    ELSE <<SubSeq(line, 1, RunEnd(line, 1))>>
         \o SplitWords(SubSeq(line, RunEnd(line, 1) + 1, Len(line)))

\* "modal.com" in line or "App ID" in line
MentionsApp(line) ==
    \/ \E i \in 1..Len(line) : line[i] = "modal.com"
    \/ \E i \in 1..(Len(line) - 2) :
          line[i] = "App" /\ line[i + 1] = " " /\ line[i + 2] = "ID"

RECURSIVE FirstAppWord(_)
\* the first part of a line that starts with "ap-", else None
FirstAppWord(words) ==
    IF words = <<>> THEN None
    ELSE IF words[1][1] = "ap-" THEN Concat(words[1])
    ELSE FirstAppWord(Tail(words))

RECURSIVE ScanAppId(_, _)
\* the loop over stdout lines of run_task_generation: a later matching line
\* overwrites app_id (the break leaves the inner loop only)
ScanAppId(lines, app_id) ==
    IF lines = <<>> THEN app_id
    ELSE LET found == IF MentionsApp(lines[1])
                      THEN FirstAppWord(SplitWords(lines[1])) ELSE None
         IN  ScanAppId(Tail(lines), IF found # None THEN found ELSE app_id)

\* names for which str.endswith(".toml") holds
TomlNames == {"a.toml", "b.toml", "c.toml"}

RECURSIVE TomlOf(_)
\* the loop of get_toml_files_from_volume over the lines of the listing:
\* a line whose last word ends with .toml contributes that word
TomlOf(listing) ==
    IF listing = <<>> THEN <<>>
    ELSE (IF listing[1] # <<>> /\ listing[1][Len(listing[1])] \in TomlNames
          THEN <<listing[1][Len(listing[1])]>> ELSE <<>>) \o TomlOf(Tail(listing))

\* get_toml_files_from_volume: what a call can return.  A falsy directory
\* gives [] without a call; a failing, timed-out or raising call gives [].
get_toml_files_from_volume(output_directory) ==
    IF ~Truthy(output_directory) THEN {<<>>}
    ELSE {<<>>} \cup (IF output_directory \in DOMAIN volume
                      THEN {TomlOf(volume[output_directory])} ELSE {})

----------------------------------------------------------------------------
(* run_tasks_batch.py : the sequential runner *)

\* the --model choices
Models == {"glm-4.6", "gpt-4"}

\* get_model_provider: model_map.get(model_name, model_name)
get_model_provider(model_name) ==
    IF model_name = "glm-4.6" THEN "novita"
    ELSE IF model_name = "gpt-4" THEN "openai"
    ELSE model_name

\* task files tried (already loaded and filtered)
TaskFiles == {<<>>, <<"Pick up the cup">>, <<"Pick up the cup", "Pour liquid">>}

\* values of --delay tried: time.sleep raises ValueError for a negative one
Delays == {-1, 2}

\* an option that was not given has the value None: an int option is modelled
\* as the empty sequence when it is None and as <<n>> when it is n
NoInt == <<>>

ArgsSet == [model : {"glm-4.6"}, runs_per_task : 0..MaxRuns, no_detach : BOOLEAN,
            delay : Delays, start_from : {0}, max_tasks : {NoInt}]

\* captured stdout texts of the external tool
StdoutWithDir ==
    <<"View", " ", "at", " ", "https://", "modal.com", "/apps/", "ap-", "123", "\n",
      "App", " ", "ID", ":", " ", "ap-", "123", "\n",
      "Saved", " ", "to", " ", DirLiteral, "Foo_1", "/", "\n">>
StdoutPlain == <<"done", "\n">>
StdoutSamples == {StdoutWithDir, StdoutPlain}

\* what subprocess.run can do in run_task_generation: raise, or return a
\* CompletedProcess
ToolRuns ==
    {[raised |-> TRUE, text |-> "OSError", returncode |-> 0,
      stdout |-> <<>>, stderr |-> ""]}
    \cup {[raised |-> FALSE, text |-> "", returncode |-> 0, stdout |-> o, stderr |-> ""] :
            o \in StdoutSamples}
    \cup {[raised |-> FALSE, text |-> "", returncode |-> 1, stdout |-> <<>>,
           stderr |-> "Traceback"]}

\* mutant: the volume is listed in detached mode too
ListsVolume_AnyMode(run, detach) ==
    run.returncode = 0 /\ Truthy(parse_output_directory(run.stdout))

\* run_task_generation calls get_toml_files_from_volume: exit code 0, "if not
\* detach and output_directory"
ListsVolume(run, detach) ==
    run.returncode = 0 /\ ~detach /\ Truthy(parse_output_directory(run.stdout))

\* run_task_generation after subprocess.run returned: the result dicts it can
\* return (the stdout entry, which main never reads, is left out)
run_task_generation(run, detach) ==
    LET app_id == IF run.returncode = 0 /\ detach
                  THEN ScanAppId(SplitLines(run.stdout), None) ELSE None
        output_directory == IF run.returncode = 0
                            THEN parse_output_directory(run.stdout) ELSE None
        listings == IF ListsVolume(run, detach)
                    THEN get_toml_files_from_volume(output_directory)
                    ELSE {<<>>}
    IN  {[returncode |-> run.returncode, stderr |-> run.stderr, app_id |-> app_id,
          output_directory |-> output_directory,
          toml_files |-> IF toml_files # <<>> THEN Join(", ", toml_files) ELSE ""] :
            toml_files \in listings}

\* mutant: the detach flag is read the wrong way round
DetermineStatus_Swapped(returncode, no_detach) ==
    IF returncode = 0
    THEN (IF no_detach THEN "submitted" ELSE "completed")
    ELSE "failed"

\* mutant: a status outside the fixed set
DetermineStatus_Success(returncode, no_detach) ==
    IF returncode = 0 THEN "success" ELSE "failed"

\* main, "Determine status"
DetermineStatus(returncode, no_detach) ==
    IF returncode = 0
    THEN (IF ~no_detach THEN "submitted" ELSE "completed")
    ELSE "failed"

\* the dict log_task_run hands to writerow; csv formats run_number with str()
LogRecord(timestamp, task_description, model_name, model_provider, run_number, st, app_id, output_directory, toml_files, notes) ==
    [timestamp |-> timestamp, task_description |-> task_description,
     model_name |-> model_name, model_provider |-> model_provider,
     run_number |-> Str(run_number), status |-> st, app_id |-> OrEmpty(app_id),
     output_directory |-> OrEmpty(output_directory),
     toml_files |-> OrEmpty(toml_files), notes |-> OrEmpty(notes)]

\* mutant: rows with status error are not written
log_task_run_SkipsError(lines, record) ==
    IF record.status = "error" THEN lines ELSE Append(lines, WriteRow(Header, record))

\* log_task_run: open(csv_path, "a") and write one row
log_task_run(lines, record) == Append(lines, WriteRow(Header, record))

\* mutant: the file is opened with "w" whether or not it exists
init_csv_log_Always(exists, lines) == <<Header>>

\* mutant: the header is written at every call, behind what the file holds
init_csv_log_Repeats(exists, lines) == Append(lines, Header)

\* init_csv_log: the header is written only when the file does not exist
init_csv_log(exists, lines) == IF ~exists THEN <<Header>> ELSE lines

total_runs == Len(tasks) * args.runs_per_task

\* value of result before the first call returns
NoResult == [returncode |-> 0, stderr |-> "", app_id |-> None,
             output_directory |-> None, toml_files |-> ""]

Running == pc \in {"load", "init_csv", "invoke", "log", "delay", "except", "finish"}

\* mutant: the batch stops after an attempt that failed or raised
EndAttempt_StopOnFailure ==
    IF status = "failed" \/ pc = "except"
    THEN pc' = "finish" /\ UNCHANGED <<task_pos, run_num, current_run>>
    ELSE IF run_num < args.runs_per_task
    THEN /\ task_pos' = task_pos /\ run_num' = run_num + 1
         /\ current_run' = current_run + 1 /\ pc' = "invoke"
    ELSE IF task_pos < Len(tasks)
    THEN /\ task_pos' = task_pos + 1 /\ run_num' = 1
         /\ current_run' = current_run + 1 /\ pc' = "invoke"
    ELSE pc' = "finish" /\ UNCHANGED <<task_pos, run_num, current_run>>

\* the loop heads: start the attempt (tp, rn)
StartAttempt(tp, rn) ==
    /\ task_pos' = tp
    /\ run_num' = rn
    /\ current_run' = current_run + 1
    /\ pc' = "invoke"

\* end of the loop body: the next run of the task, the next task, or the end
EndAttempt ==
    IF run_num < args.runs_per_task THEN StartAttempt(task_pos, run_num + 1)
    ELSE IF task_pos < Len(tasks) THEN StartAttempt(task_pos + 1, 1)
    ELSE pc' = "finish" /\ UNCHANGED <<task_pos, run_num, current_run>>

\* main: csv_path = init_csv_log(args.csv_log), then the loops are entered
InitCsvLog ==
    /\ pc = "init_csv"
    /\ csv_lines' = init_csv_log(csv_exists, csv_lines)
    /\ csv_exists' = TRUE
    /\ IF Len(tasks) > 0 /\ args.runs_per_task > 0
       THEN StartAttempt(1, 1)
       ELSE pc' = "finish" /\ UNCHANGED <<task_pos, run_num, current_run>>
    /\ UNCHANGED <<clock, volume, args, tasks, result, status, exc, invocations, listed,
                   logged, slept, exit_code, maint_vars, par_vars, log_vars, call_vars, task_files, pipe, answered>>

\* main: result = run_task_generation(...) and the status is determined, or
\* the call raises and control passes to the except clause
Invoke ==
    /\ pc = "invoke"
    /\ invocations' = Append(invocations, <<task_pos, run_num>>)
    /\ \E run \in ToolRuns :
          IF run.raised
          THEN /\ exc' = run.text
               /\ pc' = "except"
               /\ UNCHANGED <<result, status, listed>>
          ELSE /\ result' \in run_task_generation(run, ~args.no_detach)
               /\ listed' = IF ListsVolume(run, ~args.no_detach)
                            THEN Append(listed, parse_output_directory(run.stdout))
                            ELSE listed
               /\ status' = DetermineStatus(run.returncode, args.no_detach)
               /\ pc' = "log"
               /\ exc' = exc
    /\ UNCHANGED <<file_vars, volume, args, tasks, task_pos, run_num, current_run,
                   logged, slept, exit_code, maint_vars, par_vars, log_vars, call_vars, task_files, pipe, answered>>

\* the record of the try block's log_task_run call
TryRecord ==
    LogRecord(IsoFormat(clock), tasks[task_pos], args.model,
              get_model_provider(args.model), run_num, status, result.app_id,
              result.output_directory, result.toml_files,
              IF status = "failed" THEN result.stderr ELSE None)

\* the record of the except clause's log_task_run call
ExceptRecord ==
    LogRecord(IsoFormat(clock), tasks[task_pos], args.model,
              get_model_provider(args.model), run_num, "error", None, None, None,
              exc)

\* main: "Log the run"; the write can raise (OSError), which the except
\* clause handles
LogRun ==
    /\ pc = "log"
    /\ \/ /\ csv_lines' = log_task_run(csv_lines, TryRecord)
          /\ csv_exists' = TRUE
          /\ clock' = clock + 1
          /\ logged' = Append(logged, <<task_pos, run_num>>)
          /\ pc' = "delay"
          /\ exc' = exc
       \/ /\ exc' = "OSError"
          /\ pc' = "except"
          /\ UNCHANGED <<file_vars, logged>>
    /\ UNCHANGED <<volume, args, tasks, task_pos, run_num, current_run, result,
                   status, invocations, listed, slept, exit_code, maint_vars, par_vars, log_vars, call_vars, task_files, pipe, answered>>

\* main: "Delay before next submission (except for last run)"; time.sleep
\* raises ValueError for a negative delay, inside the try block
Delay ==
    /\ pc = "delay"
    /\ IF current_run < total_runs /\ args.delay < 0
       THEN /\ exc' = "sleep length must be non-negative"
            /\ pc' = "except"
            /\ UNCHANGED <<task_pos, run_num, current_run, slept>>
       ELSE /\ slept' = IF current_run < total_runs THEN slept + 1 ELSE slept
            /\ EndAttempt
            /\ exc' = exc
    /\ UNCHANGED <<file_vars, volume, args, tasks, result, status, invocations, listed,
                   logged, exit_code, maint_vars, par_vars, log_vars, call_vars, task_files, pipe, answered>>

\* main: except Exception as e: log_task_run(status="error", notes=str(e)),
\* after which e is unbound; when this write raises too the exception leaves
\* main
ExceptLog ==
    /\ pc = "except"
    /\ \/ /\ csv_lines' = log_task_run(csv_lines, ExceptRecord)
          /\ csv_exists' = TRUE
          /\ clock' = clock + 1
          /\ logged' = Append(logged, <<task_pos, run_num>>)
          /\ EndAttempt
          /\ exc' = ""
          /\ exit_code' = exit_code
       \/ /\ pc' = "crashed"
          /\ exit_code' = 1
          /\ UNCHANGED <<file_vars, logged, task_pos, run_num, current_run, exc>>
    /\ UNCHANGED <<volume, args, tasks, result, status, invocations, listed, slept,
                   maint_vars, par_vars, log_vars, call_vars, task_files, pipe, answered>>

\* main returns after the summary; the interpreter exits with code 0
Finish ==
    /\ pc = "finish"
    /\ pc' = "done"
    /\ exit_code' = 0
    /\ UNCHANGED <<file_vars, volume, args, tasks, task_pos, run_num, current_run,
                   result, status, exc, invocations, listed, logged, slept, maint_vars,
                   par_vars, log_vars, call_vars, task_files, pipe, answered>>

\* a process-level interrupt (KeyboardInterrupt is not an Exception): the
\* process ends and its local state is gone
Interrupt ==
    /\ Running
    /\ pc' = "interrupted"
    /\ exit_code' = 130
    /\ task_pos' = 0 /\ run_num' = 0 /\ current_run' = 0
    /\ result' = NoResult /\ status' = "" /\ exc' = ""
    /\ UNCHANGED <<file_vars, volume, args, tasks, invocations, listed, logged, slept,
                   maint_vars, par_vars, log_vars, call_vars, task_files, pipe, answered>>

NextSeq == InitCsvLog \/ Invoke \/ LogRun \/ Delay \/ ExceptLog \/ Finish \/ Interrupt

----------------------------------------------------------------------------
(* update_toml_log.py : the maintenance routine *)

\* rows = list(csv.DictReader(f)): the first line gives the fieldnames
ReadAll(lines) ==
    IF lines = <<>> THEN <<>>
    ELSE [i \in 1..(Len(lines) - 1) |-> ReadRow(lines[1], lines[i + 1])]

\* reader.fieldnames (None for an empty file, here the empty list)
ReadFieldnames(lines) == IF lines = <<>> THEN <<>> ELSE lines[1]

\* mutant: rows that already have toml_files are selected too
NeedsUpdate_IgnoresExisting(row) == Truthy(Get(row, "output_directory"))

\* "Find rows that need updating"
NeedsUpdate(row) ==
    Truthy(Get(row, "output_directory")) /\ ~Truthy(Get(row, "toml_files"))

RECURSIVE SelectFrom(_, _)
SelectFrom(rs, i) ==
    IF i > Len(rs) THEN <<>>
    ELSE (IF NeedsUpdate(rs[i]) THEN <<i>> ELSE <<>>) \o SelectFrom(rs, i + 1)

RowsToUpdate(rs) == SelectFrom(rs, 1)

\* mutant: writeheader is left out
FileImage_NoHeader(names, rs) == [i \in 1..Len(rs) |-> WriteRow(names, rs[i])]

\* writer.writeheader(); writer.writerows(rows)
FileImage(names, rs) ==
    <<names>> \o [i \in 1..Len(rs) |-> WriteRow(names, rs[i])]

\* data written from offset 0 by a handle opened with "w", over whatever the
\* file holds by then: lines beyond the written ones stay
WriteAtStart(current, image) ==
    image \o SubSeq(current, Len(image) + 1, Len(current))

MaintRunning == m_pc \in {"read", "query", "write_back", "writing", "dry_summary"}

\* update_csv_with_toml_files up to the update loop: existence check, read,
\* selection of the candidate rows
MaintRead ==
    /\ m_pc = "read"
    /\ csv_at_start' = csv_lines
    /\ IF ~csv_exists
       THEN /\ m_pc' = "done"
            /\ UNCHANGED <<fieldnames, rows, rows_to_update, m_k>>
       ELSE /\ fieldnames' = ReadFieldnames(csv_lines)
            /\ rows' = ReadAll(csv_lines)
            /\ rows_to_update' = RowsToUpdate(ReadAll(csv_lines))
            /\ m_k' = 1
            /\ m_pc' = IF RowsToUpdate(ReadAll(csv_lines)) = <<>> THEN "done" ELSE "query"
    /\ UNCHANGED <<file_vars, volume, seq_vars, dry_run, updated_count, queried,
                   par_vars, log_vars, call_vars, task_files, pipe, answered>>

\* one iteration of "Update rows with toml file information"
MaintQuery ==
    /\ m_pc = "query"
    /\ LET idx == rows_to_update[m_k]
           output_dir == rows[idx]["output_directory"]
       IN  /\ queried' = Append(queried, output_dir)
           /\ \E toml_files \in get_toml_files_from_volume(output_dir) :
                 /\ answered' = [answered EXCEPT ![Len(answered)] =
                                     Append(@, <<output_dir, toml_files>>)]
                 /\ IF toml_files # <<>> /\ ~dry_run
                    THEN /\ rows' = [rows EXCEPT ![idx]["toml_files"] =
                                                     Join(", ", toml_files)]
                         /\ updated_count' = updated_count + 1
                    ELSE UNCHANGED <<rows, updated_count>>
    /\ m_k' = m_k + 1
    /\ m_pc' = IF m_k < Len(rows_to_update) THEN "query" ELSE "write_back"
    /\ UNCHANGED <<file_vars, volume, seq_vars, dry_run, fieldnames, rows_to_update,
                   csv_at_start, par_vars, log_vars, call_vars, task_files, pipe>>

\* mutant: the file is written back whatever the mode and the count
WritesBack_Always(dry, count) == TRUE

\* mutant: a run that is not a dry run writes back whatever it updated
WritesBack_AnyCount(dry, count) == ~dry

\* "if not dry_run and updated_count > 0"
WritesBack(dry, count) == ~dry /\ count > 0

\* "Write back to CSV if not dry run": open(csv_path, "w") truncates the file
MaintOpenForWrite ==
    /\ m_pc = "write_back"
    /\ IF WritesBack(dry_run, updated_count)
       THEN /\ csv_lines' = <<>>
            /\ csv_exists' = TRUE
            /\ m_pc' = "writing"
       ELSE /\ m_pc' = IF dry_run THEN "dry_summary" ELSE "done"
            /\ UNCHANGED <<csv_lines, csv_exists>>
    /\ UNCHANGED <<clock, volume, seq_vars, dry_run, fieldnames, rows, rows_to_update,
                   m_k, updated_count, queried, csv_at_start, par_vars, log_vars, call_vars, task_files, pipe, answered>>

\* writeheader, writerows and the close that flushes them to the file
MaintWrite ==
    /\ m_pc = "writing"
    /\ csv_lines' = WriteAtStart(csv_lines, FileImage(fieldnames, rows))
    /\ m_pc' = "done"
    /\ UNCHANGED <<csv_exists, clock, volume, seq_vars, dry_run, fieldnames, rows,
                   rows_to_update, m_k, updated_count, queried, csv_at_start, par_vars, log_vars, call_vars, task_files, pipe, answered>>

\* the dry-run summary lists every candidate's directory once more
MaintDrySummary ==
    /\ m_pc = "dry_summary"
    /\ queried' = queried \o [k \in 1..Len(rows_to_update) |->
                                 rows[rows_to_update[k]]["output_directory"]]
    /\ m_pc' = "done"
    /\ UNCHANGED <<file_vars, volume, seq_vars, dry_run, fieldnames, rows,
                   rows_to_update, m_k, updated_count, csv_at_start, par_vars, log_vars, call_vars, task_files, pipe, answered>>

\* the process is stopped part-way: its local state is gone
MaintStop ==
    /\ MaintRunning
    /\ m_pc' = "stopped"
    /\ fieldnames' = <<>> /\ rows' = <<>> /\ rows_to_update' = <<>>
    /\ m_k' = 0 /\ updated_count' = 0
    /\ UNCHANGED <<file_vars, volume, seq_vars, dry_run, queried, csv_at_start,
                   par_vars, log_vars, call_vars, task_files, pipe, answered>>

\* the routine is run again after a run that returned
MaintAgain ==
    /\ m_pc = "done"
    /\ Len(answered) < MaxMaintRuns
    /\ m_pc' = "read"
    /\ fieldnames' = <<>> /\ rows' = <<>> /\ rows_to_update' = <<>>
    /\ m_k' = 0 /\ updated_count' = 0 /\ queried' = <<>>
    /\ answered' = Append(answered, <<>>)
    /\ csv_at_start' = csv_lines
    /\ UNCHANGED <<file_vars, volume, seq_vars, dry_run, par_vars, log_vars, call_vars,
                   task_files, pipe>>

NextMaint ==
    MaintRead \/ MaintQuery \/ MaintOpenForWrite \/ MaintWrite \/ MaintDrySummary
    \/ MaintStop

----------------------------------------------------------------------------
(* run_batch_tasks.py : the parallel runner *)

\* ThreadPoolExecutor(max_workers=5)
MaxWorkers == 5

\* JSON task files tried; a task without "prompt" reads as prompt ""
Task(prompt) == [prompt |-> prompt, object |-> "Box"]
ParTaskFiles ==
    {<<Task("p1")>>,
     <<Task("p1"), Task("")>>,
     <<Task("p1"), Task("p2"), Task("p3")>>,
     <<Task("p1"), Task("p2"), Task("p3"), Task("p4"), Task("p5"), Task("p6")>>}

\* the directory the process was started in, and script_dir, the directory of
\* the script, passed as cwd= to every subprocess.run
StartDir == "."
ScriptDir == "src/modal"

\* what subprocess.run can do in the parallel run_task_generation
ParToolRuns == {[raised |-> FALSE, returncode |-> 0],
                [raised |-> FALSE, returncode |-> 1],
                [raised |-> TRUE, returncode |-> 0]}

\* run_task_generation (parallel): False on an exception or a non-zero code
ParSuccess(run) == ~run.raised /\ run.returncode = 0

UnitsIn(state) == {i \in 1..Len(p_tasks) : unit[i].state = state}

\* executor.submit for the next task of enumerate(tasks, 1)
ParSubmit ==
    /\ p_pc = "submit"
    /\ LET i == Cardinality({j \in 1..Len(p_tasks) : unit[j].state # "new"}) + 1
       IN  /\ unit' = [unit EXCEPT ![i].state = "queued"]
           /\ p_pc' = IF i < Len(p_tasks) THEN "submit" ELSE "collect"
    /\ UNCHANGED <<file_vars, volume, seq_vars, maint_vars, log_vars, call_vars, task_files, pipe, answered, p_tasks, p_cwd, successful_tasks,
                   failed_tasks, p_exit_code>>

\* mutant: a thread is started for every work item
WorkerFree_Always(running) == TRUE

\* the pool starts threads only while it has fewer than max_workers, so a
\* work item is taken only when fewer than MaxWorkers are being run
WorkerFree(running) == running < MaxWorkers

\* a worker thread takes the oldest queued work item
UnitStart(i) ==
    /\ unit[i].state = "queued"
    /\ \A j \in UnitsIn("queued") : i <= j
    /\ WorkerFree(Cardinality(UnitsIn("running")))
    /\ unit' = [unit EXCEPT ![i].state = "running"]
    /\ UNCHANGED <<file_vars, volume, seq_vars, maint_vars, log_vars, call_vars, task_files, pipe, answered, p_pc, p_tasks, p_cwd,
                   successful_tasks, failed_tasks, p_exit_code>>

\* mutant: the unit changes the process's working directory for its
\* invocation and appends its result to the shared lists itself
UnitFinish_Shared(i) ==
    /\ unit[i].state = "running"
    /\ \E run \in ParToolRuns :
          /\ unit' = [unit EXCEPT ![i].state = "finished",
                                  ![i].success = ParSuccess(run),
                                  ![i].calls = @ + 1]
          /\ p_cwd' = ScriptDir
          /\ IF ParSuccess(run)
             THEN /\ successful_tasks' = Append(successful_tasks, <<i, p_tasks[i].prompt>>)
                  /\ failed_tasks' = failed_tasks
             ELSE /\ failed_tasks' = Append(failed_tasks, <<i, p_tasks[i].prompt>>)
                  /\ successful_tasks' = successful_tasks
    /\ UNCHANGED <<file_vars, volume, seq_vars, maint_vars, log_vars, call_vars, task_files, pipe, answered, p_pc, p_tasks,
                   p_exit_code>>

\* process_single_task: an empty prompt returns False without an invocation,
\* else the unit blocks in subprocess.run and returns its success
UnitFinish(i) ==
    /\ unit[i].state = "running"
    /\ IF p_tasks[i].prompt = ""
       THEN unit' = [unit EXCEPT ![i].state = "finished", ![i].success = FALSE]
       ELSE \E run \in ParToolRuns :
               unit' = [unit EXCEPT ![i].state = "finished",
                                    ![i].success = ParSuccess(run),
                                    ![i].calls = @ + 1,
                                    ![i].cwd = ScriptDir]
    /\ UNCHANGED <<file_vars, volume, seq_vars, maint_vars, log_vars, call_vars, task_files, pipe, answered, p_pc, p_tasks, p_cwd,
                   successful_tasks, failed_tasks, p_exit_code>>

\* one iteration of "for future in as_completed(future_to_task)"
ParCollect(i) ==
    /\ p_pc = "collect"
    /\ unit[i].state = "finished"
    /\ unit' = [unit EXCEPT ![i].state = "collected"]
    /\ IF unit[i].success
       THEN /\ successful_tasks' = Append(successful_tasks, <<i, p_tasks[i].prompt>>)
            /\ failed_tasks' = failed_tasks
       ELSE /\ failed_tasks' = Append(failed_tasks, <<i, p_tasks[i].prompt>>)
            /\ successful_tasks' = successful_tasks
    /\ UNCHANGED <<file_vars, volume, seq_vars, maint_vars, log_vars, call_vars, task_files, pipe, answered, p_pc, p_tasks, p_cwd, p_exit_code>>

\* mutant: the loop over as_completed ends after the first future
AsCompletedExhausted_First == \E i \in 1..Len(p_tasks) : unit[i].state = "collected"

\* as_completed(future_to_task) has yielded every future
AsCompletedExhausted == \A i \in 1..Len(p_tasks) : unit[i].state = "collected"

\* as_completed is exhausted, the summary is printed and sys.exit is called
ParExit ==
    /\ p_pc = "collect"
    /\ AsCompletedExhausted
    /\ p_pc' = "exited"
    /\ p_exit_code' = IF Len(failed_tasks) = 0 THEN 0 ELSE 1
    /\ UNCHANGED <<file_vars, volume, seq_vars, maint_vars, log_vars, call_vars, task_files, pipe, answered, p_tasks, p_cwd, unit,
                   successful_tasks, failed_tasks>>

NextPar ==
    \/ ParSubmit
    \/ \E i \in 1..Len(p_tasks) : UnitStart(i)
    \/ \E i \in 1..Len(p_tasks) : UnitFinish(i)
    \/ \E i \in 1..Len(p_tasks) : ParCollect(i)
    \/ ParExit

----------------------------------------------------------------------------
(* The run logger of run_tasks_batch.py called directly: init_csv_log,       *)
(* log_task_run, and the read of the whole file of update_toml_log.py        *)

\* arguments of log_task_run calls tried; None is an optional argument left
\* out or passed as None
LogCall(run_number, st, app_id, output_directory, toml_files, notes) ==
    [task_description |-> "Pick up the cup", model_name |-> "glm-4.6",
     model_provider |-> get_model_provider("glm-4.6"), run_number |-> run_number,
     status |-> st, app_id |-> app_id, output_directory |-> output_directory,
     toml_files |-> toml_files, notes |-> notes]

LogCalls ==
    {LogCall(1, "submitted", "ap-123", "Foo_1", None, None),
     LogCall(2, "failed", None, None, None, "Traceback"),
     LogCall(12, "completed", "", "Foo_1", "a.toml, b.toml", ""),
     LogCall(1, "error", None, None, None, None)}

\* value of l_record before the first log_task_run call
NoCall == LogCall(0, "", None, None, None, None)

\* a call of init_csv_log(csv_path)
LogInit ==
    /\ l_inits < MaxInits
    /\ csv_lines' = init_csv_log(csv_exists, csv_lines)
    /\ csv_exists' = TRUE
    /\ l_inits' = l_inits + 1
    /\ l_op' = "init"
    /\ UNCHANGED <<clock, volume, seq_vars, maint_vars, par_vars, call_vars, task_files, pipe, answered, l_record, l_rows>>

\* a call of log_task_run(csv_path, ...); its caller has called init_csv_log
\* before
LogAppend ==
    /\ l_inits > 0
    /\ Len(csv_lines) <= MaxRows
    /\ \E call \in LogCalls :
          /\ csv_lines' = log_task_run(csv_lines,
                              LogRecord(IsoFormat(clock), call.task_description,
                                        call.model_name, call.model_provider,
                                        call.run_number, call.status, call.app_id,
                                        call.output_directory, call.toml_files,
                                        call.notes))
          /\ l_record' = call
    /\ clock' = clock + 1
    /\ l_op' = "append"
    /\ UNCHANGED <<csv_exists, volume, seq_vars, maint_vars, par_vars, call_vars, task_files, pipe, answered, l_inits, l_rows>>

\* all rows of the file read with csv.DictReader
LogReadAll ==
    /\ csv_exists
    /\ l_rows' = ReadAll(csv_lines)
    /\ l_op' = "read"
    /\ UNCHANGED <<file_vars, volume, seq_vars, maint_vars, par_vars, call_vars, task_files, pipe, answered, l_inits, l_record>>

NextLog == LogInit \/ LogAppend \/ LogReadAll

----------------------------------------------------------------------------
(* Initial states *)

\* rows an earlier run of the sequential runner has logged
PriorRecord(kind, n) ==
    CASE kind = "candidate" ->
             LogRecord(IsoFormat(n), "Pick up the cup", "glm-4.6", "novita", 1,
                       "submitted", "ap-123", "Foo_1", None, None)
      [] kind = "candidate2" ->
             LogRecord(IsoFormat(n), "Pour liquid", "glm-4.6", "novita", 2,
                       "submitted", None, "Bar_2", None, None)
      [] kind = "filled" ->
             LogRecord(IsoFormat(n), "Pick up the cup", "gpt-4", "openai", 1,
                       "completed", None, "Foo_1", "a.toml", None)
      [] kind = "failed" ->
             LogRecord(IsoFormat(n), "Pour liquid", "glm-4.6", "novita", 1,
                       "failed", None, None, None, "Traceback")

PriorKinds == {"candidate", "candidate2", "filled", "failed"}

\* a log file as init_csv_log and log_task_run leave it
PriorLog(kinds) ==
    <<Header>> \o [i \in 1..Len(kinds) |-> WriteRow(Header, PriorRecord(kinds[i], i - 1))]

KindSeqs(kinds, n) == UNION {[1..k -> kinds] : k \in 0..n}

\* listings of the remote volume (modal volume ls), one word list per line
ListingFoo == << <<"a.toml">>, <<"meta.yaml">>, <<"b.toml">> >>
ListingBar == << <<"c.toml">> >>
Volumes == {[Foo_1 |-> f, Bar_2 |-> b] : f \in {<<>>, ListingFoo}, b \in {<<>>, ListingBar}}

SeqIdle ==
    /\ args = [model |-> "glm-4.6", runs_per_task |-> 0, no_detach |-> FALSE, delay |-> 2,
               start_from |-> 0, max_tasks |-> NoInt]
    /\ tasks = <<>>
    /\ pc = "idle"
    /\ task_pos = 0 /\ run_num = 0 /\ current_run = 0
    /\ result = NoResult
    /\ status = "" /\ exc = ""
    /\ invocations = <<>> /\ listed = <<>> /\ logged = <<>> /\ slept = 0
    /\ exit_code = -1

SeqStart ==
    /\ args \in ArgsSet
    /\ tasks \in TaskFiles
    /\ Len(tasks) * args.runs_per_task <= MaxAttempts
    /\ pc = "init_csv"
    /\ task_pos = 0 /\ run_num = 0 /\ current_run = 0
    /\ result = NoResult
    /\ status = "" /\ exc = ""
    /\ invocations = <<>> /\ listed = <<>> /\ logged = <<>> /\ slept = 0
    /\ exit_code = -1

MaintInit(start) ==
    /\ m_pc = start
    /\ dry_run \in (IF start = "idle" THEN {FALSE} ELSE BOOLEAN)
    /\ fieldnames = <<>> /\ rows = <<>> /\ rows_to_update = <<>>
    /\ m_k = 0 /\ updated_count = 0 /\ queried = <<>>
    /\ csv_at_start = <<>>
    /\ answered = << <<>> >>

ParInit(files) ==
    /\ p_tasks \in files
    /\ p_pc = IF p_tasks = <<>> THEN "idle" ELSE "submit"
    /\ unit = [i \in 1..Len(p_tasks) |->
                 [state |-> "new", success |-> FALSE, calls |-> 0, cwd |-> ""]]
    /\ p_cwd = StartDir
    /\ successful_tasks = <<>> /\ failed_tasks = <<>>
    /\ p_exit_code = -1

LogIdle == l_op = "none" /\ l_inits = 0 /\ l_record = NoCall /\ l_rows = <<>>

\* the pipeline entrypoint: a local that is not assigned yet, and the
\* entrypoint not running
NoStatus == ""
NoCode == -1

PipeIdle ==
    pipe = [pc |-> "idle", target_model_provider |-> "novita", generate_task |-> FALSE,
            execute |-> FALSE, task_config_path |-> None, dataset_result |-> NoStatus,
            embeddings_result |-> NoStatus, result1 |-> NoCode, result2 |-> NoCode,
            calls |-> <<>>]

NoCallMade == call_fn = "" /\ call_arg = <<>> /\ call_ret = <<>>

RECURSIVE TextOf(_)
\* a task file with one task on every line
TextOf(list) ==
    IF list = <<>> THEN <<>>
    ELSE <<list[1], "\n">> \o TextOf(Tail(list))

\* the task input files hold what the runners have loaded
TaskFilesRead ==
    task_files = [txt |-> [exists |-> TRUE, text |-> TextOf(tasks)],
                  json |-> [exists |-> TRUE, tasks |-> p_tasks]]

\* the log file before a run: absent, or left by earlier runs
FileAbsent == csv_exists = FALSE /\ csv_lines = <<>> /\ clock = 0

FileInit(kindset, n) ==
    \/ FileAbsent
    \/ \E kinds \in KindSeqs(kindset, n) :
          csv_exists = TRUE /\ csv_lines = PriorLog(kinds) /\ clock = Len(kinds)

\* nothing but the single call is running
Quiet ==
    /\ FileAbsent
    /\ volume = [Foo_1 |-> ListingFoo, Bar_2 |-> <<>>]
    /\ SeqIdle
    /\ MaintInit("idle")
    /\ ParInit({<<>>})
    /\ LogIdle
    /\ TaskFilesRead

----------------------------------------------------------------------------
(* One attempt of the sequential runner on any captured output *)

\* tokens of the captured outputs tried
Tokens == {DirLiteral, "Foo_Bar_123", "/", " ", "\n", "x"}

Texts(n) == UNION {[1..k -> Tokens] : k \in 0..n}

InitAttempt ==
    /\ Quiet
    /\ PipeIdle
    /\ call_fn = ""
    /\ call_arg \in [returncode : {0, 1}, stdout : Texts(MaxLen), detach : BOOLEAN]
    /\ call_ret = <<>>

\* main: result = run_task_generation(...) and "Determine status", for a
\* subprocess.run that returned
AttemptOnce ==
    /\ call_fn = ""
    /\ call_fn' = "run_task_generation"
    /\ \E r \in run_task_generation([returncode |-> call_arg.returncode,
                                      stdout |-> call_arg.stdout,
                                      stderr |-> IF call_arg.returncode = 0
                                                 THEN "" ELSE "Traceback"],
                                     call_arg.detach) :
          call_ret' = [result |-> r,
                       status |-> DetermineStatus(r.returncode, ~call_arg.detach)]
    /\ UNCHANGED <<file_vars, volume, seq_vars, maint_vars, par_vars, log_vars, call_arg, task_files, pipe, answered>>

SpecAttempt == InitAttempt /\ [][AttemptOnce]_vars

----------------------------------------------------------------------------
(* load_tasks on any small line-oriented task file; a text is a sequence of
   characters *)

\* the list-numbering glyph of the task files
Glyph == "→"

Chars == {" ", "\n", Glyph, "a"}

CharTexts(n) == UNION {[1..k -> Chars] : k \in 0..n}

RECURSIVE ReadLines(_)
\* "for line in f": the lines of the file, each with its newline
ReadLines(text) ==
    IF text = <<>> THEN <<>>
    ELSE IF \E i \in 1..Len(text) : text[i] = "\n"
    THEN LET i == CHOOSE m \in 1..Len(text) :
                      text[m] = "\n" /\ \A n \in 1..(m - 1) : text[n] # "\n"
         IN  <<SubSeq(text, 1, i)>> \o ReadLines(SubSeq(text, i + 1, Len(text)))
    ELSE <<text>>

RECURSIVE LStrip(_)
LStrip(s) == IF s # <<>> /\ s[1] \in Whitespace THEN LStrip(Tail(s)) ELSE s

RECURSIVE RStrip(_)
RStrip(s) ==
    IF s # <<>> /\ s[Len(s)] \in Whitespace
    THEN RStrip(SubSeq(s, 1, Len(s) - 1))
    ELSE s

\* str.strip()
Strip(s) == LStrip(RStrip(s))

AfterGlyph_Last(task) ==
    LET i == CHOOSE m \in 1..Len(task) :
                 task[m] = Glyph /\ \A n \in (m + 1)..Len(task) : task[n] # Glyph
    IN  SubSeq(task, i + 1, Len(task))

\* task.split(Glyph, 1)[1], for a task that contains the glyph
AfterGlyph(task) ==
    LET i == CHOOSE m \in 1..Len(task) :
                 task[m] = Glyph /\ \A n \in 1..(m - 1) : task[n] # Glyph
    IN  SubSeq(task, i + 1, Len(task))

RECURSIVE LoadLines(_)
\* the loop of load_tasks over the lines
LoadLines(lines) ==
    IF lines = <<>> THEN <<>>
    ELSE LET stripped == Strip(lines[1])
             task == IF Glyph \in Range(stripped)
                     THEN Strip(AfterGlyph(stripped))
                     ELSE stripped
         IN  (IF task # <<>> THEN <<task>> ELSE <<>>) \o LoadLines(Tail(lines))

load_tasks(text) == LoadLines(ReadLines(text))

InitLoad ==
    /\ Quiet
    /\ PipeIdle
    /\ call_fn = ""
    /\ call_arg \in CharTexts(MaxChars)
    /\ call_ret = <<>>

\* main: tasks = load_tasks(args.task_file), for a file that exists
LoadOnce ==
    /\ call_fn = ""
    /\ call_fn' = "load_tasks"
    /\ call_ret' = load_tasks(call_arg)
    /\ UNCHANGED <<file_vars, volume, seq_vars, maint_vars, par_vars, log_vars, call_arg, task_files, pipe, answered>>

SpecLoad == InitLoad /\ [][LoadOnce]_vars

----------------------------------------------------------------------------
(* scripts/get_stats.py : the statistics of the output folders.  A folder
   name and a date option are sequences of tokens: words, "_", "-", "/" and
   runs of digits *)

\* the runs of digits tried
DigitWords == {"2024", "2025", "00", "01", "02", "10", "13", "23", "31", "59"}

\* int() of a run of digits
IntOf(word) ==
    CASE word = "2024" -> 2024 [] word = "2025" -> 2025
      [] word = "00" -> 0 [] word = "01" -> 1 [] word = "02" -> 2
      [] word = "10" -> 10 [] word = "13" -> 13 [] word = "23" -> 23
      [] word = "31" -> 31 [] word = "59" -> 59

\* \d{n}
IsDigits(word, n) == word \in DigitWords /\ Len(word) = n

\* no datetime: None
NoDate == <<>>

DaysIn(year, month) ==
    IF month \in {4, 6, 9, 11} THEN 30
    ELSE IF month = 2
    THEN (IF year % 4 = 0 /\ (year % 100 # 0 \/ year % 400 = 0) THEN 29 ELSE 28)
    ELSE 31

\* datetime(year, month, day, hour, minute, second), None for the ValueError
\* of a field out of range
DateTime(f) ==
    IF /\ f[1] >= 1 /\ f[2] \in 1..12 /\ f[3] \in 1..DaysIn(f[1], f[2])
       /\ f[4] \in 0..23 /\ f[5] \in 0..59 /\ f[6] \in 0..59
    THEN f ELSE NoDate

\* the tokens end with \d{4}-\d{2}-\d{2}-\d{2}-\d{2}-\d{2}
EndsWithStamp(dirname) ==
    LET n == Len(dirname)
    IN  /\ n >= 11
        /\ IsDigits(dirname[n - 10], 4)
        /\ \A k \in 0..4 : dirname[n - 9 + 2 * k] = "-" /\ IsDigits(dirname[n - 8 + 2 * k], 2)

parse_timestamp_from_dirname(dirname) ==
    IF EndsWithStamp(dirname)
    THEN LET n == Len(dirname)
         IN  DateTime([k \in 1..6 |-> IntOf(dirname[n - 12 + 2 * k])])
    ELSE NoDate

\* re.sub of _\d{4}-\d{2}-\d{2}-\d{2}-\d{2}-\d{2}$ by ''
extract_task_name(dirname) ==
    IF EndsWithStamp(dirname) /\ Len(dirname) >= 12 /\ dirname[Len(dirname) - 11] = "_"
    THEN SubSeq(dirname, 1, Len(dirname) - 12)
    ELSE dirname

\* datetime.strptime(after_date, "%Y-%m-%d"), None for its ValueError
StrpDate(after_date) ==
    IF /\ Len(after_date) = 5
       /\ IsDigits(after_date[1], 4) /\ after_date[2] = "-"
       /\ IsDigits(after_date[3], 2) /\ after_date[4] = "-"
       /\ IsDigits(after_date[5], 2)
    THEN DateTime(<<IntOf(after_date[1]), IntOf(after_date[3]), IntOf(after_date[5]),
                    0, 0, 0>>)
    ELSE NoDate

RECURSIVE DateLeq(_, _)
\* a <= b for two datetimes
DateLeq(a, b) ==
    IF a = <<>> THEN TRUE
    ELSE IF a[1] # b[1] THEN a[1] < b[1]
    ELSE DateLeq(Tail(a), Tail(b))

\* "if cutoff_date: ... if task_date and task_date <= cutoff_date"
FilteredByDate(dirname, cutoff_date) ==
    /\ cutoff_date # NoDate
    /\ parse_timestamp_from_dirname(dirname) # NoDate
    /\ DateLeq(parse_timestamp_from_dirname(dirname), cutoff_date)

\* "if allowed_models: ... if model_name not in allowed_models"
FilteredByModel(model_name, allowed_models) ==
    allowed_models # {} /\ model_name \notin allowed_models

\* mutant: the entry of the folder seen first is always kept
Replaces_Never(has_python, prev_has_python) == FALSE

\* "Replace previous entry if current has Python and previous doesn't"
Replaces(has_python, prev_has_python) == has_python /\ ~prev_has_python

\* the counters and lists of analyze_task_outputs before the loop
StatsStart ==
    [dirs_with_python |-> 0, dirs_with_gif |-> 0, all_substeps_data |-> <<>>,
     seen_task_names |-> <<>>, filtered_by_date |-> 0, filtered_by_model |-> 0]

\* one iteration of "for subdir in tqdm(subdirs)"; seen_task_names is kept
\* as a list of (task_name, index, has_python), index counted from 1
ProcessDir(st, subdir, unique_tasks, cutoff_date, allowed_models) ==
    IF FilteredByDate(subdir.dirname, cutoff_date)
    THEN [st EXCEPT !.filtered_by_date = @ + 1]
    ELSE IF FilteredByModel(subdir.model_name, allowed_models)
    THEN [st EXCEPT !.filtered_by_model = @ + 1]
    ELSE LET counted == [st EXCEPT
                           !.dirs_with_python = IF subdir.has_python THEN @ + 1 ELSE @,
                           !.dirs_with_gif = IF subdir.has_gif THEN @ + 1 ELSE @]
             entry == [dirname |-> subdir.dirname, substeps |-> subdir.substeps]
             task_name == extract_task_name(subdir.dirname)
             seen == st.seen_task_names
         IN  IF ~unique_tasks
             THEN [counted EXCEPT !.all_substeps_data = Append(@, entry)]
             ELSE IF \E k \in 1..Len(seen) : seen[k].task_name = task_name
             THEN LET k == CHOOSE j \in 1..Len(seen) : seen[j].task_name = task_name
                  IN  IF Replaces(subdir.has_python, seen[k].has_python)
                      THEN [counted EXCEPT
                              !.all_substeps_data[seen[k].index] = entry,
                              !.seen_task_names[k].has_python = TRUE]
                      ELSE counted
             ELSE [counted EXCEPT
                     !.all_substeps_data = Append(@, entry),
                     !.seen_task_names =
                         Append(@, [task_name |-> task_name,
                                    index |-> Len(st.all_substeps_data) + 1,
                                    has_python |-> subdir.has_python])]

RECURSIVE ProcessDirs(_, _, _, _, _)
ProcessDirs(st, subdirs, unique_tasks, cutoff_date, allowed_models) ==
    IF subdirs = <<>> THEN st
    ELSE ProcessDirs(ProcessDir(st, subdirs[1], unique_tasks, cutoff_date, allowed_models),
                     Tail(subdirs), unique_tasks, cutoff_date, allowed_models)

\* analyze_task_outputs: what it returns and the counts it prints; with no
\* folder it returns before the loop
analyze_task_outputs(subdirs, unique_tasks, after_date, allowed_models) ==
    IF subdirs = <<>> THEN StatsStart
    ELSE ProcessDirs(StatsStart, subdirs, unique_tasks,
                     IF after_date # <<>> THEN StrpDate(after_date) ELSE NoDate,
                     allowed_models)

\* folder names tried
Stamp(y, mo, d, h) == <<"_", y, "-", mo, "-", d, "-", h, "-", "00", "-", "00">>
DirNames ==
    {<<"Pour_Liquid_A">> \o Stamp("2025", "01", "01", "00"),
     <<"Pour_Liquid_A">> \o Stamp("2025", "01", "01", "10"),
     <<"Pour_Liquid_A">> \o Stamp("2025", "02", "01", "00"),
     <<"Open_Door">> \o Stamp("2024", "10", "31", "23"),
     <<"Open_Door">> \o Stamp("2025", "13", "01", "00"),
     <<"Open_Door">>}

\* a folder: its name, whether it has .py and .gif files, the lines of its
\* substeps.txt and the model_name of its metadata
Folders ==
    {[dirname |-> d, has_python |-> py, has_gif |-> py \/ d[1] = "Open_Door",
      substeps |-> <<"grasp", "lift">>,
      model_name |-> IF d[1] = "Open_Door" THEN "glm-4.6" ELSE None] :
        d \in DirNames, py \in BOOLEAN}

\* base_path.iterdir(): folders with different names, in any order
FolderLists(n) ==
    {l \in UNION {[1..k -> Folders] : k \in 0..n} :
        \A i, j \in 1..Len(l) : i # j => l[i].dirname # l[j].dirname}

AfterDates == {<<>>, <<"2025", "-", "01", "-", "01">>, <<"2025", "/", "01", "/", "01">>}

InitStats ==
    /\ Quiet
    /\ PipeIdle
    /\ call_fn = ""
    /\ call_arg \in [subdirs : FolderLists(MaxDirs), unique_tasks : BOOLEAN,
                      after_date : AfterDates, allowed_models : {{}, {"glm-4.6"}}]
    /\ call_ret = <<>>

\* main: result = analyze_task_outputs.remote(...)
StatsOnce ==
    /\ call_fn = ""
    /\ call_fn' = "analyze_task_outputs"
    /\ call_ret' = analyze_task_outputs(call_arg.subdirs, call_arg.unique_tasks,
                                        call_arg.after_date, call_arg.allowed_models)
    /\ UNCHANGED <<file_vars, volume, seq_vars, maint_vars, par_vars, log_vars, call_arg,
                   task_files, pipe, answered>>

SpecStats == InitStats /\ [][StatsOnce]_vars

----------------------------------------------------------------------------
(* robogen_modal_conda.py : the pipeline entrypoint *)

\* a setup step returned a status with which main goes on
SetupOk(st) == st \in {"already_exists", "success"}

\* "Determine what to run based on flags"
RunGeneration(generate_task, execute) ==
    IF generate_task /\ ~execute THEN TRUE
    ELSE IF execute /\ ~generate_task THEN FALSE
    ELSE TRUE

\* mutant: execution runs whatever the flags
RunExecution_Always(generate_task, execute) == TRUE

RunExecution(generate_task, execute) ==
    IF generate_task /\ ~execute THEN FALSE
    ELSE IF execute /\ ~generate_task THEN TRUE
    ELSE TRUE

\* what a .remote() call of a setup step can give: a status, or an exception
SetupOutcomes == {"already_exists", "success", "error", "<raised>"}

\* what a .remote() call of a run step can give: a return code, or an
\* exception (-2)
RunOutcomes == {0, 1, -2}

PipeStart ==
    pipe \in [pc : {"dataset"}, target_model_provider : {"novita", "openai"},
              generate_task : BOOLEAN, execute : BOOLEAN,
              task_config_path : {None, "task.yaml"}, dataset_result : {NoStatus},
              embeddings_result : {NoStatus}, result1 : {NoCode}, result2 : {NoCode},
              calls : {<<>>}]

PipeFrame ==
    UNCHANGED <<file_vars, volume, seq_vars, maint_vars, par_vars, log_vars, call_vars,
                task_files, answered>>

\* the step main takes after the setup steps, and after the generation
PipeAfterSetup(p) ==
    IF RunGeneration(p.generate_task, p.execute) THEN "generation"
    ELSE IF RunExecution(p.generate_task, p.execute) THEN "execution"
    ELSE "completed"

PipeAfterGeneration(p) ==
    IF RunExecution(p.generate_task, p.execute) THEN "execution" ELSE "completed"

\* "Step 1: Setup dataset (always run)"
PipeDataset ==
    /\ pipe.pc = "dataset"
    /\ \E out \in SetupOutcomes :
          pipe' = [pipe EXCEPT
                     !.calls = Append(@, <<"setup_dataset">>),
                     !.dataset_result = IF out = "<raised>" THEN NoStatus ELSE out,
                     !.pc = IF out = "<raised>" THEN "crashed"
                            ELSE IF SetupOk(out) THEN "embeddings" ELSE "returned"]
    /\ PipeFrame

\* "Step 2: Setup embeddings (always run)" and the choice of the run steps
PipeEmbeddings ==
    /\ pipe.pc = "embeddings"
    /\ \E out \in SetupOutcomes :
          pipe' = [pipe EXCEPT
                     !.calls = Append(@, <<"setup_embeddings">>),
                     !.embeddings_result = IF out = "<raised>" THEN NoStatus ELSE out,
                     !.pc = IF out = "<raised>" THEN "crashed"
                            ELSE IF SetupOk(out) THEN PipeAfterSetup(pipe)
                            ELSE "returned"]
    /\ PipeFrame

\* "Step 3: Run prompt_from_description (task generation)"
PipeGeneration ==
    /\ pipe.pc = "generation"
    /\ \E out \in RunOutcomes :
          pipe' = [pipe EXCEPT
                     !.calls = Append(@, <<"run_prompt_from_description",
                                           pipe.target_model_provider>>),
                     !.result1 = IF out = -2 THEN NoCode ELSE out,
                     !.pc = IF out = -2 THEN "crashed" ELSE PipeAfterGeneration(pipe)]
    /\ PipeFrame

\* "Step 4: Run execute"
PipeExecution ==
    /\ pipe.pc = "execution"
    /\ \E out \in RunOutcomes :
          pipe' = [pipe EXCEPT
                     !.calls = Append(@, <<"run_execute", pipe.target_model_provider,
                                           pipe.task_config_path>>),
                     !.result2 = IF out = -2 THEN NoCode ELSE out,
                     !.pc = IF out = -2 THEN "crashed" ELSE "completed"]
    /\ PipeFrame

NextPipe == PipeDataset \/ PipeEmbeddings \/ PipeGeneration \/ PipeExecution

InitPipe ==
    /\ Quiet
    /\ NoCallMade
    /\ PipeStart

SpecPipe == InitPipe /\ [][NextPipe]_vars

----------------------------------------------------------------------------
(* The start of the two runners: the task input file is found and loaded *)

\* list[n:] for n > 0
SliceFrom(list, n) == SubSeq(list, n + 1, Len(list))

\* list[:m], for any int m
SliceTo(list, m) ==
    IF m >= 0
    THEN SubSeq(list, 1, IF m < Len(list) THEN m ELSE Len(list))
    ELSE SubSeq(list, 1, IF Len(list) + m > 0 THEN Len(list) + m ELSE 0)

\* truth value of an int option: None and 0 are false
IntTruthy(opt) == opt # NoInt /\ opt[1] # 0

\* the entries of load_tasks as strings
LoadedTasks(text) == [k \in 1..Len(load_tasks(text)) |-> Concat(load_tasks(text)[k])]

\* main: "Apply start-from and max-tasks filters"
SelectTasks(loaded, a) ==
    LET from == IF a.start_from > 0 THEN SliceFrom(loaded, a.start_from) ELSE loaded
    IN  IF IntTruthy(a.max_tasks) THEN SliceTo(from, a.max_tasks[1]) ELSE from

\* mutant: a missing file is opened as an empty one
FileFound_Always(file) == TRUE

\* open(path, "r") succeeds, Path.exists() is true
FileFound(file) == file.exists

\* main: tasks = load_tasks(args.task_file) and the two filters; open()
\* raises FileNotFoundError for a missing file, nothing catches it and the
\* interpreter exits with code 1
LoadTasks ==
    /\ pc = "load"
    /\ IF FileFound(task_files.txt)
       THEN /\ tasks' = SelectTasks(LoadedTasks(task_files.txt.text), args)
            /\ pc' = "init_csv"
            /\ UNCHANGED exit_code
       ELSE /\ pc' = "crashed"
            /\ exit_code' = 1
            /\ UNCHANGED tasks
    /\ UNCHANGED <<file_vars, volume, args, task_pos, run_num, current_run, result,
                   status, exc, invocations, listed, logged, slept, maint_vars,
                   par_vars, log_vars, call_vars, task_files, pipe, answered>>

\* run_batch_tasks.py main: sys.exit(1) when the JSON file does not exist,
\* tasks = json.load(f) otherwise
ParLoad ==
    /\ p_pc = "check"
    /\ IF FileFound(task_files.json)
       THEN /\ p_tasks' = task_files.json.tasks
            /\ unit' = [i \in 1..Len(task_files.json.tasks) |->
                           [state |-> "new", success |-> FALSE, calls |-> 0, cwd |-> ""]]
            /\ p_pc' = IF task_files.json.tasks = <<>> THEN "collect" ELSE "submit"
            /\ UNCHANGED p_exit_code
       ELSE /\ p_pc' = "aborted"
            /\ p_exit_code' = 1
            /\ UNCHANGED <<p_tasks, unit>>
    /\ UNCHANGED <<file_vars, volume, seq_vars, maint_vars, log_vars, call_vars,
                   task_files, pipe, answered, p_cwd, successful_tasks, failed_tasks>>

\* line-oriented task files tried
TxtSamples ==
    {<<>>,
     <<" ", "1", Glyph, "Pick up the cup", "\n">>,
     <<" ", "1", Glyph, "Pick up the cup", "\n", "\n",
       "2", Glyph, " ", "Pour liquid", "\n", "Open the door", "\n">>}

NoTxtFile == [exists |-> FALSE, text |-> <<>>]
NoJsonFile == [exists |-> FALSE, tasks |-> <<>>]

StartArgs ==
    [model : {"glm-4.6"}, runs_per_task : 1..MaxRuns, no_detach : {FALSE}, delay : {2},
     start_from : 0..MaxPos, max_tasks : {NoInt} \cup {<<m>> : m \in (-1)..MaxPos}]

\* the sequential runner after parse_args
SeqLoadStart ==
    /\ args \in StartArgs
    /\ task_files \in [txt : {NoTxtFile} \cup [exists : {TRUE}, text : TxtSamples],
                        json : {NoJsonFile}]
    /\ Len(LoadedTasks(task_files.txt.text)) * args.runs_per_task <= MaxAttempts
    /\ tasks = <<>>
    /\ pc = "load"
    /\ task_pos = 0 /\ run_num = 0 /\ current_run = 0
    /\ result = NoResult
    /\ status = "" /\ exc = ""
    /\ invocations = <<>> /\ listed = <<>> /\ logged = <<>> /\ slept = 0
    /\ exit_code = -1

\* the parallel runner when main is entered
ParLoadStart ==
    /\ task_files \in [txt : {NoTxtFile},
                        json : {NoJsonFile} \cup
                               [exists : {TRUE},
                                tasks : {<<>>, <<Task("p1")>>, <<Task("p1"), Task("")>>}]]
    /\ p_pc = "check"
    /\ p_tasks = <<>>
    /\ unit = <<>>
    /\ p_cwd = StartDir
    /\ successful_tasks = <<>> /\ failed_tasks = <<>>
    /\ p_exit_code = -1

InitStart ==
    /\ volume = [Foo_1 |-> ListingFoo, Bar_2 |-> <<>>]
    /\ MaintInit("idle")
    /\ LogIdle
    /\ NoCallMade
    /\ \/ FileInit({"candidate"}, 1) /\ SeqLoadStart /\ ParInit({<<>>})
       \/ FileAbsent /\ SeqIdle /\ ParLoadStart
    /\ PipeIdle

NextStart == LoadTasks \/ ParLoad \/ NextSeq \/ NextPar

SpecStart == InitStart /\ [][NextStart]_vars

----------------------------------------------------------------------------
(* Specifications *)

\* a batch run alone: the sequential or the parallel runner
InitBatch ==
    /\ volume = [Foo_1 |-> ListingFoo, Bar_2 |-> <<>>]
    /\ MaintInit("idle")
    /\ LogIdle
    /\ NoCallMade
    /\ \/ FileInit({"candidate"}, 1) /\ SeqStart /\ ParInit({<<>>})
       \/ FileAbsent /\ SeqIdle /\ ParInit(ParTaskFiles)
    /\ TaskFilesRead
    /\ PipeIdle

NextBatch == NextSeq \/ NextPar

SpecBatch == InitBatch /\ [][NextBatch]_vars

\* a maintenance run alone on an existing log
InitMaint ==
    /\ FileInit(PriorKinds, MaxRows)
    /\ volume \in Volumes
    /\ SeqIdle
    /\ MaintInit("read")
    /\ ParInit({<<>>})
    /\ LogIdle
    /\ NoCallMade
    /\ TaskFilesRead
    /\ PipeIdle

SpecMaint == InitMaint /\ [][NextMaint]_vars

\* maintenance runs made one after the other on the same log
NextRerun == NextMaint \/ MaintAgain

SpecRerun == InitMaint /\ [][NextRerun]_vars

\* the sequential runner and a maintenance run on the same log file
Init ==
    /\ FileInit({"candidate"}, 1)
    /\ volume = [Foo_1 |-> ListingFoo, Bar_2 |-> <<>>]
    /\ SeqStart
    /\ tasks = <<"Pick up the cup">>
    /\ args.runs_per_task > 0
    /\ args.delay >= 0
    /\ MaintInit("read")
    /\ ParInit({<<>>})
    /\ LogIdle
    /\ NoCallMade
    /\ TaskFilesRead
    /\ PipeIdle

Next == NextSeq \/ NextMaint

Spec == Init /\ [][Next]_vars

\* a caller of the run logger alone, on an absent file or an earlier log
InitLog ==
    /\ FileInit({"candidate", "failed"}, 1)
    /\ volume = [Foo_1 |-> ListingFoo, Bar_2 |-> <<>>]
    /\ SeqIdle
    /\ MaintInit("idle")
    /\ ParInit({<<>>})
    /\ LogIdle
    /\ NoCallMade
    /\ TaskFilesRead
    /\ PipeIdle

SpecLog == InitLog /\ [][NextLog]_vars

----------------------------------------------------------------------------
(* Properties *)

\* position of a column in the fixed header
Col(name) == CHOOSE i \in 1..Len(Header) : Header[i] = name

Field(line, name) == line[Col(name)]

StatusSet == {"submitted", "completed", "failed", "error"}

\* the attempts of a sequential batch in order: task order, then run number
AttemptSeq ==
    [k \in 1..total_runs |->
        <<((k - 1) \div args.runs_per_task) + 1, ((k - 1) % args.runs_per_task) + 1>>]

\* the lines this run of the sequential runner appended
RunLines == SubSeq(csv_lines, Len(csv_lines) - Len(logged) + 1, Len(csv_lines))

\* the status the classification rule gives an exit code
ExpectedStatus(returncode, no_detach) ==
    CASE returncode = 0 /\ ~no_detach -> "submitted"
      [] returncode = 0 /\ no_detach -> "completed"
      [] returncode # 0 -> "failed"

\* what C1 asks of one step of main
C1_Step ==
    /\ (pc = "invoke" /\ pc' = "log") =>
          status' = ExpectedStatus(result'.returncode, args.no_detach)
    /\ (pc = "log" /\ pc' = "delay") =>
          /\ Len(csv_lines') = Len(csv_lines) + 1
          /\ Field(csv_lines'[Len(csv_lines')], "status") =
                ExpectedStatus(result.returncode, args.no_detach)
          /\ Field(csv_lines'[Len(csv_lines')], "notes") =
                (IF result.returncode # 0 THEN result.stderr ELSE "")
    /\ (pc = "invoke" /\ pc' \notin {"log", "interrupted"}) =>
          /\ pc' = "except"
          /\ exc' \in {r.text : r \in {t \in ToolRuns : t.raised}}
    /\ (pc = "except" /\ pc' \notin {"crashed", "interrupted"}) =>
          /\ Len(csv_lines') = Len(csv_lines) + 1
          /\ Field(csv_lines'[Len(csv_lines')], "status") = "error"
          /\ Field(csv_lines'[Len(csv_lines')], "notes") = exc

\* C1: in the sequential runner every attempt is classified by its outcome:
\* exit code 0 gives submitted in detached mode and completed in --no-detach
\* mode, a non-zero exit code gives failed with the captured stderr as the
\* note, and an exception raised by the invocation gives error with the
\* exception text as the note; the row written carries that status and note.
C1_Classification == [][C1_Step]_vars

\* C1 witness: a finished batch whose log holds a failed row with its stderr
\* note, an error row with the exception text, and a submitted row
C1_Witness ==
    /\ pc = "done"
    /\ \E i \in 1..Len(RunLines) :
          Field(RunLines[i], "status") = "failed" /\ Field(RunLines[i], "notes") = "Traceback"
    /\ \E i \in 1..Len(RunLines) :
          Field(RunLines[i], "status") = "error" /\ Field(RunLines[i], "notes") = "OSError"
    /\ \E i \in 1..Len(RunLines) : Field(RunLines[i], "status") = "submitted"

\* C2: a sequential batch over T tasks with R runs each appends exactly T*R
\* rows to the log, one per attempt, wherever an exception is raised while an
\* attempt is processed.  (Not what the code does: a time.sleep that raises
\* after the row was written sends the attempt through the except clause,
\* which writes a second row.)
C2_OneRowPerAttempt ==
    pc = "done" => Len(logged) = total_runs /\ Len(RunLines) = total_runs

\* C3: every line of the log other than a header line has all ten fields and
\* a status that is one of submitted, completed, failed, error.
C3_StatusInSet ==
    \A i \in 1..Len(csv_lines) :
        \/ csv_lines[i] = Header
        \/ /\ Len(csv_lines[i]) = Len(Header)
           /\ Field(csv_lines[i], "status") \in StatusSet

\* C3 witness: the maintenance routine has rewritten the log and the runner
\* has appended to it since, with an error row and a submitted row in the file
C3_Witness ==
    /\ m_pc = "done" /\ updated_count > 0
    /\ Len(logged) >= 2
    /\ \E i \in 1..Len(csv_lines) : Field(csv_lines[i], "status") = "error"
    /\ \E i \in 1..Len(csv_lines) : Field(csv_lines[i], "toml_files") = "a.toml, b.toml"

\* what C4 asks of one step of a batch run
C4_Step ==
    /\ (pc \in {"invoke", "log", "delay", "except"} /\ current_run < total_runs) =>
          \/ pc' \in {"invoke", "log", "delay", "except", "interrupted"}
          \/ pc = "except" /\ pc' = "crashed" /\ csv_lines' = csv_lines
    /\ pc' \in {"invoke", "log", "delay", "except", "finish", "done"} =>
          invocations' = SubSeq(AttemptSeq, 1,
                                IF pc' = "invoke" THEN current_run' - 1 ELSE current_run')
    /\ pc' = "done" => Len(invocations') = total_runs
    /\ p_pc' = "exited" =>
          /\ \A i \in 1..Len(p_tasks) :
                /\ unit'[i].state = "collected"
                /\ unit'[i].calls = IF p_tasks[i].prompt = "" THEN 0 ELSE 1
          /\ Len(successful_tasks') + Len(failed_tasks') = Len(p_tasks)

RuleExitCode(statuses) ==
    IF \A i \in 1..Len(statuses) : statuses[i] \in {"submitted", "completed"}
    THEN 0 ELSE 1

\* C5: a batch run exits with code 0 when every attempt ended submitted or
\* completed and with code 1 when at least one did not, in the sequential
\* runner as in the parallel one.  (Not what the sequential runner does: main
\* returns after the summary, so its exit code is 0 whatever the attempts
\* gave.)
C5_ExitCode ==
    /\ pc = "done" =>
          exit_code = RuleExitCode([i \in 1..Len(RunLines) |-> Field(RunLines[i], "status")])
    /\ p_pc = "exited" =>
          p_exit_code = RuleExitCode([i \in 1..Len(p_tasks) |->
                                         IF unit[i].success THEN "submitted" ELSE "failed"])

\* what C6 asks of one step of a batch run
C6_Step ==
    /\ csv_exists => csv_exists'
    /\ csv_exists => IsPrefix(csv_lines, csv_lines')
    /\ Len(csv_lines') <= Len(csv_lines) + 1

\* C6: every step of a batch run (initialize, append) leaves the existing
\* lines of the log in place: an existing file stays, its contents before the
\* step are a prefix of its contents after it, and at most one line is added.
C6_AppendOnly == [][C6_Step]_vars

\* C6 witness: the runner was started on a log that held a row, initialised
\* it and appended two rows behind the old one
C6_Witness ==
    /\ Len(logged) = 2
    /\ Len(csv_lines) = 4
    /\ csv_lines[1] = Header
    /\ Field(csv_lines[2], "timestamp") = IsoFormat(0)

\* a line without its toml_files field, the one field maintenance may fill
Key(line) == [line EXCEPT ![Col("toml_files")] = ""]

Keys(lines) == [i \in 1..Len(lines) |-> Key(lines[i])]

RECURSIVE IsSubseq(_, _)
\* s can be obtained from t by deleting elements
IsSubseq(s, t) ==
    IF s = <<>> THEN TRUE
    ELSE IF t = <<>> THEN FALSE
    ELSE IF s[1] = t[1] THEN IsSubseq(Tail(s), Tail(t))
    ELSE IsSubseq(s, Tail(t))

C7_Step ==
    /\ (maint_vars' = maint_vars /\ csv_exists) =>
          csv_exists' /\ IsPrefix(csv_lines, csv_lines')
    /\ (m_pc = "writing" /\ m_pc' = "done") =>
          IsPrefix(Keys(csv_at_start), Keys(csv_lines'))

C8_AtomicRewrite ==
    m_pc # "read" =>
        \/ csv_lines = csv_at_start
        \/ /\ Len(csv_lines) = Len(csv_at_start)
           /\ Keys(csv_lines) = Keys(csv_at_start)

\* the attempt number of a (task position, run number) pair
AttemptIndex(pair) == (pair[1] - 1) * args.runs_per_task + pair[2]

\* C9: at every point of a sequential batch, hence wherever an interrupt ends
\* it, the log is the header followed by complete rows; the rows of this run
\* are rows of its attempts in attempt order, the attempts that have a row are
\* the first n of the attempt sequence for some n, and every attempt before
\* the current one has its row.
C9_ConsistentPrefix ==
    (pc # "idle" /\ csv_exists) =>
        /\ csv_lines # <<>> /\ csv_lines[1] = Header
        /\ \A i \in 1..Len(csv_lines) : Len(csv_lines[i]) = Len(Header)
        /\ Len(logged) <= Len(csv_lines) - 1
        /\ \A k \in 1..Len(logged) :
              /\ Field(RunLines[k], "task_description") = tasks[logged[k][1]]
              /\ Field(RunLines[k], "run_number") = Str(logged[k][2])
              /\ Field(RunLines[k], "status") \in StatusSet
        /\ \A k \in 1..(Len(logged) - 1) :
              AttemptIndex(logged[k]) <= AttemptIndex(logged[k + 1])
        /\ \E n \in 0..total_runs : Range(logged) = {AttemptSeq[i] : i \in 1..n}
        /\ pc \in {"invoke", "log", "delay", "except"} =>
              {AttemptSeq[i] : i \in 1..(current_run - 1)} \subseteq Range(logged)

\* C9 witness: the batch was interrupted after the rows of its first two
\* attempts and before its last attempt was logged
C9_Witness ==
    /\ pc = "interrupted"
    /\ Len(logged) >= 2 /\ logged[1] # logged[2]
    /\ Cardinality(Range(logged)) < total_runs

\* the toml_files value the volume's listing of a directory gives
ListedToml(dir) == IF dir = "Foo_1" THEN "a.toml, b.toml" ELSE "c.toml"

\* C10: a completed maintenance run (not a dry run) leaves the number and
\* order of lines, the header and every field other than toml_files as they
\* were; a row's toml_files differs only where the row had an output
\* directory and no toml_files and the volume lists .toml files for that
\* directory, and is then their names joined by ", ".
C10_OnlyTomlBackfilled ==
    (m_pc = "done" /\ ~dry_run) =>
        /\ Len(csv_lines) = Len(csv_at_start)
        /\ \A i \in 1..Len(csv_lines) :
              /\ Key(csv_lines[i]) = Key(csv_at_start[i])
              /\ (i = 1 \/ ~(/\ Field(csv_at_start[i], "output_directory") # ""
                             /\ Field(csv_at_start[i], "toml_files") = "")) =>
                    csv_lines[i] = csv_at_start[i]
              /\ csv_lines[i] # csv_at_start[i] =>
                    /\ volume[Field(csv_at_start[i], "output_directory")] # <<>>
                    /\ Field(csv_lines[i], "toml_files") =
                          ListedToml(Field(csv_at_start[i], "output_directory"))

\* C10 witness: a run that filled in one row and left another row, which had
\* its toml_files already, as it was
C10_Witness ==
    /\ m_pc = "done" /\ ~dry_run /\ updated_count = 1
    /\ Len(csv_lines) = 3
    /\ \E i \in 2..3 : csv_lines[i] # csv_at_start[i]
    /\ \E i \in 2..3 : Field(csv_at_start[i], "toml_files") = "a.toml"
                       /\ csv_lines[i] = csv_at_start[i]

\* the output directories of the candidate rows of a file, in row order
CandidateDirs(lines) ==
    [k \in 1..Len(RowsToUpdate(ReadAll(lines))) |->
        Field(lines[RowsToUpdate(ReadAll(lines))[k] + 1], "output_directory")]

\* what C11 asks of one step of a dry run
C11_Step ==
    dry_run =>
        /\ csv_lines' = csv_lines /\ csv_exists' = csv_exists
        /\ m_pc' \in {"write_back", "dry_summary"} =>
              queried' = CandidateDirs(csv_lines)
        /\ (m_pc' = "done" /\ csv_exists) =>
              IsPrefix(CandidateDirs(csv_lines), queried')

\* C11: no step of a maintenance run in dry-run mode changes the log file,
\* whatever the volume lists and whether or not a listing call fails; when the
\* update loop is over, the run has queried the volume for the directory of
\* every candidate row, in row order.
C11_DryRunLeavesFile == [][C11_Step]_vars

\* C11 witness: a dry run has ended on a log with two candidate rows, for one
\* of which the volume lists .toml files, and the file is as it was
C11_Witness ==
    /\ dry_run /\ m_pc = "done"
    /\ Len(CandidateDirs(csv_lines)) = 2
    /\ \E k \in 1..2 : volume[CandidateDirs(csv_lines)[k]] # <<>>
    /\ Len(queried) >= 2
    /\ csv_lines = csv_at_start

\* C12: a log file that exists starts with the fixed ten-column header in
\* every reachable state, across initialize calls, appends and maintenance
\* rewrites, and every line has exactly ten fields.  (Not what the code does:
\* the maintenance rewrite opens the file with "w", which leaves it without a
\* header until the rows are written back, and for good when the process
\* stops there; a runner started afterwards appends rows behind no header.)
C12_FixedHeader ==
    csv_exists =>
        /\ csv_lines # <<>>
        /\ csv_lines[1] = Header
        /\ \A i \in 1..Len(csv_lines) : Len(csv_lines[i]) = Len(Header)

\* what C13 asks of a step that is a call of init_csv_log
C13_Step ==
    l_inits' = l_inits + 1 =>
        /\ csv_exists'
        /\ csv_exists => csv_lines' = csv_lines
        /\ ~csv_exists => csv_lines' = <<Header>>

\* C13: init_csv_log writes the header only when the file is absent; a call on
\* a file that exists, however many calls went before and whatever rows the
\* file holds, leaves the file as it is.
C13_InitIdempotent == [][C13_Step]_vars

\* C13 witness: init_csv_log was called for the third time, on a file that
\* holds the header and two rows, one of them appended since the first call
C13_Witness ==
    /\ l_op = "init" /\ l_inits = 3
    /\ l_record # NoCall
    /\ Len(csv_lines) = 3
    /\ csv_lines[1] = Header /\ csv_lines[2] # Header /\ csv_lines[3] # Header

\* an optional argument as it is read back
ReadBack(x) == IF x = None THEN "" ELSE x

C15_AtMostFiveInFlight ==
    /\ Cardinality(UnitsIn("running")) <= MaxWorkers
    /\ \A i \in 1..Len(p_tasks) :
          /\ unit[i].state \in {"new", "queued", "running"} => unit[i].calls = 0
          /\ unit[i].state \in {"finished", "collected"} =>
                unit[i].calls = IF p_tasks[i].prompt = "" THEN 0 ELSE 1

\* C15 witness: six tasks were submitted, five units are being run and the
\* sixth waits in the queue
C15_Witness ==
    /\ Len(p_tasks) = 6
    /\ Cardinality(UnitsIn("running")) = MaxWorkers
    /\ unit[6].state = "queued"

\* the task indices of a result list
Indices(list) == [k \in 1..Len(list) |-> list[k][1]]

\* C16: when the parallel runner has computed its summary and exit code,
\* every submitted unit has finished and was collected, in whatever order the
\* units finished; every task index is in exactly one of successful_tasks
\* and failed_tasks, once, so the two lengths add up to the number of tasks,
\* and the exit code is 0 exactly when failed_tasks is empty.
C16_SummaryAfterBarrier ==
    p_pc = "exited" =>
        /\ \A i \in 1..Len(p_tasks) : unit[i].state = "collected"
        /\ \A i \in 1..Len(p_tasks) :
              Cardinality({k \in 1..Len(successful_tasks) : successful_tasks[k][1] = i})
              + Cardinality({k \in 1..Len(failed_tasks) : failed_tasks[k][1] = i}) = 1
        /\ \A i \in 1..Len(p_tasks) :
              (i \in Range(Indices(successful_tasks))) = unit[i].success
        /\ Len(successful_tasks) + Len(failed_tasks) = Len(p_tasks)
        /\ p_exit_code = IF failed_tasks = <<>> THEN 0 ELSE 1

\* C16 witness: three units finished out of submission order, the third
\* task's result was collected first, and the process exited with code 1
C16_Witness ==
    /\ p_pc = "exited" /\ Len(p_tasks) = 3
    /\ Indices(successful_tasks) = <<3, 1>>
    /\ Indices(failed_tasks) = <<2>>
    /\ p_exit_code = 1

\* unit i is taken by a worker or finishes in this step
UnitStep(i) ==
    /\ unit[i].state \in {"queued", "running"}
    /\ unit'[i] # unit[i]

\* what C17 asks of one step of the parallel runner
C17_Step ==
    /\ p_cwd' = p_cwd
    /\ \A i \in 1..Len(p_tasks) :
          unit'[i].calls > unit[i].calls => unit'[i].cwd = ScriptDir
    /\ \A i \in 1..Len(p_tasks) :
          UnitStep(i) =>
             /\ \A j \in 1..Len(p_tasks) : j # i => unit'[j] = unit[j]
             /\ UNCHANGED <<p_pc, p_tasks, successful_tasks, failed_tasks, p_exit_code>>
    /\ <<successful_tasks, failed_tasks>>' # <<successful_tasks, failed_tasks>> =>
          /\ p_pc = "collect"
          /\ \E i \in 1..Len(p_tasks) :
                /\ unit[i].state = "finished" /\ unit'[i].state = "collected"
                /\ IF unit[i].success
                   THEN /\ successful_tasks' = Append(successful_tasks, <<i, p_tasks[i].prompt>>)
                        /\ failed_tasks' = failed_tasks
                   ELSE /\ failed_tasks' = Append(failed_tasks, <<i, p_tasks[i].prompt>>)
                        /\ successful_tasks' = successful_tasks

\* C17: units of the parallel runner share no mutable state.  No step changes
\* the working directory of the process, every invocation is given script_dir
\* as its own working directory, a step of a unit changes nothing but that
\* unit's own future, and the successful and failed lists change only by the
\* coordinating thread appending the result of one finished unit.
C17_NoSharedState == [][C17_Step]_vars

\* C17 witness: while two units were being run, a third had finished with its
\* own working directory and a fourth had been collected by the coordinator
C17_Witness ==
    /\ Len(p_tasks) = 6
    /\ Cardinality(UnitsIn("running")) >= 2
    /\ \E i \in 1..Len(p_tasks) : unit[i].state = "finished" /\ unit[i].cwd = ScriptDir
    /\ Len(successful_tasks) + Len(failed_tasks) = 1
    /\ p_cwd = StartDir

\* number of external invocations the parallel runner has made
ParInvocations == Cardinality({i \in 1..Len(p_tasks) : unit[i].calls > 0})

\* C18: when the parallel runner exits after every invocation exited 0, the
\* log holds one row per unit run, each with status submitted and a non-empty
\* output_directory, and the exit code is 0.  (Not what the code does: the
\* parallel runner has no repeat count and no pool-width option, runs each
\* task once with five workers, and never opens the log; the formula takes one
\* attempt per task and is violated by the missing rows.)
C18_ParallelRowsPerUnit ==
    (p_pc = "exited" /\ \A i \in 1..Len(p_tasks) : unit[i].success) =>
        /\ ParInvocations = Len(p_tasks)
        /\ p_exit_code = 0
        /\ csv_exists
        /\ Len(csv_lines) = 1 + ParInvocations
        /\ \A k \in 2..Len(csv_lines) :
              /\ Field(csv_lines[k], "status") = "submitted"
              /\ Field(csv_lines[k], "output_directory") # ""

\* C19: in a sequential batch with a non-negative delay the runner has slept
\* once for every earlier invocation when it makes the next one, whatever the
\* earlier attempts gave, and has slept once less than it made invocations
\* when the batch is over.  (Not what the code does: time.sleep is inside the
\* try block, so after an attempt whose invocation or log write raised, the
\* except clause is followed by the next invocation with no sleep.)
C19_SleepsBetweenInvocations ==
    args.delay >= 0 =>
        /\ pc = "invoke" => slept = Len(invocations)
        /\ (pc = "done" /\ total_runs > 0) => slept = total_runs - 1

\* what C20 asks of one step of the sequential runner
C20_Step ==
    /\ (pc = "invoke" /\ pc' = "log") =>
          /\ listed' # listed <=>
                (args.no_detach /\ result'.returncode = 0
                 /\ result'.output_directory \notin {None, ""})
          /\ listed' # listed =>
                /\ listed' = Append(listed, result'.output_directory)
                /\ result'.toml_files \in {"", ListedToml(result'.output_directory)}
          /\ listed' = listed => result'.toml_files = ""
          /\ status' = ExpectedStatus(result'.returncode, args.no_detach)
    /\ ~(pc = "invoke" /\ pc' = "log") => listed' = listed
    /\ (pc = "log" /\ pc' = "delay") =>
          Field(csv_lines'[Len(csv_lines')], "toml_files") = result.toml_files
    /\ (pc = "except" /\ pc' \notin {"crashed", "interrupted"}) =>
          Field(csv_lines'[Len(csv_lines')], "toml_files") = ""

\* C20: the sequential runner lists the volume for an attempt only when the
\* attempt ran in non-detached mode, exited 0 and an output directory was
\* parsed from its output; otherwise no listing call is made and the row's
\* toml_files is empty.  When the volume was listed, toml_files is the names
\* found joined by ", ", or empty when the listing call failed, timed out or
\* raised, and the attempt's status is what its exit code gives either way.
C20_TomlQueryOnlyNonDetached == [][C20_Step]_vars

\* C20 witness: a non-detached batch listed the volume for two attempts; one
\* row holds the names found, the other, whose listing call failed, holds an
\* empty toml_files, and both rows are completed
C20_Witness ==
    /\ pc = "done" /\ args.no_detach
    /\ listed = <<"Foo_1", "Foo_1">>
    /\ Len(RunLines) = 2
    /\ Field(RunLines[1], "toml_files") = "a.toml, b.toml"
    /\ Field(RunLines[2], "toml_files") = ""
    /\ \A k \in 1..2 : Field(RunLines[k], "status") = "completed"
                         /\ Field(RunLines[k], "output_directory") = "Foo_1"

\* positions of the literal that are followed by a non-whitespace token
LiteralWithSegment(text) ==
    {i \in 1..(Len(text) - 1) : text[i] = DirLiteral /\ text[i + 1] \notin Whitespace}

\* out is the whitespace-free run that follows position i of text, without
\* its trailing slashes
IsSegmentAfter(text, i, out) ==
    \E j \in (i + 1)..Len(text) :
        /\ \A k \in (i + 1)..j : text[k] \notin Whitespace
        /\ j = Len(text) \/ text[j + 1] \in Whitespace
        /\ \E e \in i..j :
              /\ \A k \in (e + 1)..j : text[k] = "/"
              /\ e = i \/ text[e] # "/"
              /\ out = Concat(SubSeq(text, i + 1, e))

NonBlank(s) == \E i \in 1..Len(s) : s[i] \notin Whitespace

\* t is s without its leading and its trailing whitespace
IsTrimOf(t, s) ==
    IF NonBlank(s)
    THEN \E i \in 1..Len(s) : \E j \in i..Len(s) :
             /\ s[i] \notin Whitespace /\ s[j] \notin Whitespace
             /\ \A k \in 1..(i - 1) : s[k] \in Whitespace
             /\ \A k \in (j + 1)..Len(s) : s[k] \in Whitespace
             /\ t = SubSeq(s, i, j)
    ELSE t = <<>>

\* the part of a line an entry is taken from: what follows the first glyph,
\* or the whole line when it has no glyph
KeptPart(line) ==
    IF \E g \in 1..Len(line) : line[g] = Glyph
    THEN LET g == CHOOSE m \in 1..Len(line) :
                      line[m] = Glyph /\ \A n \in 1..(m - 1) : line[n] # Glyph
         IN  [k \in 1..(Len(line) - g) |-> line[g + k]]
    ELSE line

\* ret lists, in file order, the trimmed kept part of exactly the lines
\* whose position is in counted
EntriesOf(ret, lines, counted) ==
    /\ Len(ret) = Cardinality(counted)
    /\ \E f \in [1..Len(ret) -> counted] :
          /\ \A k \in 1..(Len(ret) - 1) : f[k] < f[k + 1]
          /\ \A k \in 1..Len(ret) : IsTrimOf(ret[k], KeptPart(lines[f[k]]))

\* C22 as stated: load_tasks returns, in file order, exactly as many entries
\* as the file has non-blank lines, each the trimmed line or the trimmed text
\* after the first glyph of the line.
C22_EntryPerNonBlankLine ==
    call_fn = "load_tasks" =>
        LET lines == ReadLines(call_arg)
        IN  EntriesOf(call_ret, lines, {i \in 1..Len(lines) : NonBlank(lines[i])})

\* C22, amended: load_tasks returns, in file order, exactly one entry for
\* every line whose kept part (the text after the first glyph, or the whole
\* line when it has no glyph) is non-blank, and the entry is that part
\* trimmed, later glyphs included; a non-blank line with nothing but
\* whitespace after its first glyph gives no entry.
C22_EntryPerNonBlankResult ==
    call_fn = "load_tasks" =>
        LET lines == ReadLines(call_arg)
        IN  EntriesOf(call_ret, lines,
                      {i \in 1..Len(lines) : NonBlank(KeptPart(lines[i]))})

\* C22 witness: a file of two non-blank lines, the first with nothing after
\* its glyph, was loaded as one entry
C22_Witness ==
    /\ call_fn = "load_tasks"
    /\ call_arg = <<"a", Glyph, "\n", Glyph, "a">>
    /\ call_ret = << <<"a">> >>

\* a step of a runner whose task input file is missing
C23_Step ==
    /\ (pc # "idle" /\ ~task_files.txt.exists) =>
          /\ pc = "load"
          /\ pc' \in {"crashed", "interrupted"}
          /\ pc' = "crashed" => exit_code' = 1
          /\ invocations' = <<>> /\ listed' = <<>> /\ logged' = <<>> /\ slept' = 0
          /\ UNCHANGED file_vars
    /\ (p_pc # "idle" /\ ~task_files.json.exists) =>
          /\ p_pc = "check"
          /\ p_pc' = "aborted"
          /\ p_exit_code' = 1
          /\ unit' = <<>>
          /\ UNCHANGED file_vars

\* C23: a runner whose task input file is missing takes one step only, the
\* failed load, which ends the process with exit code 1 (unless it is
\* interrupted before); it makes no external invocation, loads no second
\* time, and neither creates nor changes the log file.
C23_MissingFileFatal == [][C23_Step]_vars

\* C23 witness: the sequential runner has ended on the missing task file,
\* with no log file and no invocation
C23_Witness ==
    /\ pc = "crashed"
    /\ ~task_files.txt.exists
    /\ exit_code = 1
    /\ csv_exists = FALSE
    /\ invocations = <<>>

\* the descriptions of the tasks of the invocations made, in order
Attempted == [k \in 1..Len(invocations) |-> tasks[invocations[k][1]]]

\* the loaded tasks at the 0-indexed positions n, n + 1, ..., at most m of
\* them (all of them when no maximum is given)
Selection(loaded, n, m) ==
    LET rest == IF Len(loaded) > n THEN Len(loaded) - n ELSE 0
        cnt == IF m = NoInt THEN rest ELSE IF m[1] < rest THEN m[1] ELSE rest
    IN  [k \in 1..cnt |-> loaded[n + k]]

\* C28: when the sequential runner has run to its end with --start-from N
\* and --max-tasks M (M >= 0 or not given), the invocations made are those of
\* the loaded tasks at the 0-indexed positions N, N + 1, ..., at most M of
\* them, in file order, each runs-per-task times.
C28_SelectedTasksAttempted ==
    (pc = "done" /\ task_files.txt.exists
       /\ (args.max_tasks = NoInt \/ args.max_tasks[1] >= 0)) =>
        LET sel == Selection(LoadedTasks(task_files.txt.text), args.start_from,
                             args.max_tasks)
            R == args.runs_per_task
        IN  /\ Len(invocations) = Len(sel) * R
            /\ \A k \in 1..Len(invocations) : Attempted[k] = sel[((k - 1) \div R) + 1]

\* C27: in sequential mode the invocations made are the first attempts of
\* the attempt sequence (task order, then run order), the rows this run
\* appended are the rows of the first attempts of that sequence, one row per
\* attempt, so that each task's rows carry the run numbers 1..R once each in
\* increasing order and precede the rows of the next task, and an invocation
\* is made only when every earlier attempt has its row.
C27_StrictOrder ==
    pc # "idle" =>
        /\ Len(invocations) <= total_runs
        /\ invocations = SubSeq(AttemptSeq, 1, Len(invocations))
        /\ Len(logged) <= Len(invocations)
        /\ logged = SubSeq(AttemptSeq, 1, Len(logged))
        /\ Len(invocations) - 1 <= Len(logged)
        /\ \A k \in 1..Len(logged) :
              /\ Field(RunLines[k], "task_description") = tasks[logged[k][1]]
              /\ Field(RunLines[k], "run_number") = Str(logged[k][2])

\* what C26 asks of one step of a maintenance run
C26_Step ==
    /\ m_pc' = "writing" => (~dry_run /\ updated_count > 0)
    /\ csv_lines' # csv_lines =>
          (m_pc \in {"write_back", "writing"} /\ ~dry_run /\ updated_count > 0)
    /\ (m_pc # "done" /\ m_pc' = "done" /\ updated_count = 0) =>
          /\ csv_exists' = csv_exists
          /\ csv_lines' = csv_at_start'
          /\ csv_exists => RowsToUpdate(ReadAll(csv_lines')) = rows_to_update'

\* C26: the maintenance routine opens the log for writing only in a run that
\* is not a dry run and has updated at least one row; a run that ends with no
\* row updated (no candidate rows, or an empty or failed listing for every
\* candidate) leaves the file as it was when the run started, with the same
\* rows as candidates.
C26_WritesOnlyAfterUpdate == [][C26_Step]_vars

\* C26 witness: a run that is not a dry run has listed the directory of each
\* of its two candidate rows, got nothing for either, and ended with the
\* file as it was
C26_Witness ==
    /\ m_pc = "done"
    /\ ~dry_run
    /\ Len(rows_to_update) = 2
    /\ Len(queried) = 2
    /\ updated_count = 0
    /\ csv_lines = csv_at_start
    /\ RowsToUpdate(ReadAll(csv_lines)) = rows_to_update

\* the listing calls gave the same result whenever they named the same
\* directory
SameAnswers(calls) ==
    \A i, j \in 1..Len(calls) : calls[i][1] = calls[j][1] => calls[i][2] = calls[j][2]

\* C29: a maintenance run that follows a run that returned, the listing of
\* every directory giving the same result in both, updates no row, never
\* opens the log for writing and leaves it as the earlier run left it; and in
\* every run the directories listed are those of rows whose toml_files was
\* empty when the run read the log, while a row whose toml_files was not
\* empty is in the log unchanged when the run has returned.
C29_Idempotent ==
    LET n == Len(answered)
        before == ReadAll(csv_at_start)
    IN  /\ (n >= 2 /\ SameAnswers(answered[n - 1] \o answered[n])) =>
              /\ updated_count = 0
              /\ m_pc # "writing"
              /\ csv_lines = csv_at_start
        /\ (m_pc \in {"query", "write_back", "writing", "dry_summary", "done"}
             /\ csv_at_start # <<>>) =>
              \A k \in 1..Len(answered[n]) :
                  /\ ~Truthy(before[rows_to_update[k]]["toml_files"])
                  /\ before[rows_to_update[k]]["output_directory"] = answered[n][k][1]
        /\ (m_pc = "done" /\ csv_at_start # <<>>) =>
              /\ Len(ReadAll(csv_lines)) = Len(before)
              /\ \A i \in 1..Len(before) :
                    Truthy(before[i]["toml_files"]) => ReadAll(csv_lines)[i] = before[i]

\* C29 witness: a first run filled one of its two candidate rows and got
\* nothing for the other; the second run listed the directory of the other
\* row again, got nothing again, and returned with the log as the first run
\* left it
C29_Witness ==
    /\ m_pc = "done"
    /\ ~dry_run
    /\ Len(answered) = 2
    /\ Len(answered[1]) = 2
    /\ \E k \in 1..2 : answered[1][k][2] # <<>>
    /\ Len(answered[2]) = 1
    /\ SameAnswers(answered[1] \o answered[2])
    /\ csv_lines = csv_at_start

\* the folders of a statistics call that pass the date and model filters
Surviving ==
    LET cutoff == IF call_arg.after_date # <<>> THEN StrpDate(call_arg.after_date)
                  ELSE NoDate
    IN  {f \in Range(call_arg.subdirs) :
            /\ ~FilteredByDate(f.dirname, cutoff)
            /\ ~FilteredByModel(f.model_name, call_arg.allowed_models)}

\* position in the folder list of the first surviving folder of a task name
FirstSeen(name) ==
    CHOOSE i \in 1..Len(call_arg.subdirs) :
        /\ call_arg.subdirs[i] \in Surviving
        /\ extract_task_name(call_arg.subdirs[i].dirname) = name
        /\ \A j \in 1..(i - 1) :
              call_arg.subdirs[j] \in Surviving =>
                  extract_task_name(call_arg.subdirs[j].dirname) # name

\* C24: with unique_tasks set, the output has exactly one entry per task name
\* of the folders that pass the filters, whatever their number and order;
\* the entry is the name and the substeps of a folder of that task name, of
\* one with source-code files when any folder of the name has them, and the
\* entries are in the order in which the task names were first seen.
C24_OneEntryPerTaskName ==
    (call_fn = "analyze_task_outputs" /\ call_arg.unique_tasks) =>
        LET data == call_ret.all_substeps_data
            names == {extract_task_name(f.dirname) : f \in Surviving}
            NameAt(k) == extract_task_name(data[k].dirname)
        IN  /\ Len(data) = Cardinality(names)
            /\ \A name \in names : \E k \in 1..Len(data) : NameAt(k) = name
            /\ \A k \in 1..Len(data) :
                  \E f \in Surviving :
                      /\ f.dirname = data[k].dirname
                      /\ f.substeps = data[k].substeps
                      /\ (\E g \in Surviving :
                             extract_task_name(g.dirname) = NameAt(k) /\ g.has_python)
                            => f.has_python
            /\ \A k, l \in 1..Len(data) :
                  k < l => FirstSeen(NameAt(k)) < FirstSeen(NameAt(l))

\* C24 witness: of three folders of two task names, the second folder of the
\* first name has the source-code files and took the place of the first one
C24_Witness ==
    /\ call_fn = "analyze_task_outputs"
    /\ call_arg.unique_tasks
    /\ Len(call_arg.subdirs) = 3
    /\ Surviving = Range(call_arg.subdirs)
    /\ extract_task_name(call_arg.subdirs[1].dirname) = <<"Pour_Liquid_A">>
    /\ extract_task_name(call_arg.subdirs[2].dirname) = <<"Open_Door">>
    /\ extract_task_name(call_arg.subdirs[3].dirname) = <<"Pour_Liquid_A">>
    /\ ~call_arg.subdirs[1].has_python
    /\ call_arg.subdirs[3].has_python
    /\ Len(call_ret.all_substeps_data) = 2
    /\ call_ret.all_substeps_data[1].dirname = call_arg.subdirs[3].dirname
    /\ call_ret.all_substeps_data[2].dirname = call_arg.subdirs[2].dirname

\* the calendar date of a timestamp or of a cutoff
DateOf(t) == SubSeq(t, 1, 3)

\* C25: with a valid cutoff date given, every folder whose name carries a
\* timestamp of the cutoff date (at any time of day) or of an earlier date
\* is dropped, every folder of a later date is kept, and the dropped
\* folders have no entry and are not counted as folders with code or with
\* an animation.
C25_DropsAtOrBeforeCutoff ==
    (call_fn = "analyze_task_outputs" /\ ~call_arg.unique_tasks
       /\ call_arg.allowed_models = {}
       /\ call_arg.after_date # <<>> /\ StrpDate(call_arg.after_date) # NoDate) =>
        LET cutoff == StrpDate(call_arg.after_date)
            Stamped(f) == parse_timestamp_from_dirname(f.dirname) # NoDate
            Dropped(f) == /\ Stamped(f)
                          /\ DateLeq(DateOf(parse_timestamp_from_dirname(f.dirname)),
                                     DateOf(cutoff))
            kept == {f \in Range(call_arg.subdirs) : ~Dropped(f)}
            data == call_ret.all_substeps_data
        IN  /\ {data[k].dirname : k \in 1..Len(data)} = {f.dirname : f \in kept}
            /\ Len(data) = Cardinality(kept)
            /\ call_ret.dirs_with_python = Cardinality({f \in kept : f.has_python})
            /\ call_ret.dirs_with_gif = Cardinality({f \in kept : f.has_gif})

\* the remote functions of the pipeline in their fixed order
PipeOrder ==
    <<"setup_dataset", "setup_embeddings", "run_prompt_from_description", "run_execute">>

\* the remote functions called so far, in order
PipeCalled == [k \in 1..Len(pipe.calls) |-> pipe.calls[k][1]]

\* C30: the entrypoint calls its remote steps in the order dataset setup,
\* embeddings setup, task generation, task execution, each at most once;
\* generation and execution are called only after both setup steps returned
\* success or already_exists, and a setup step that returned another status
\* is the last call made; with only the generate flag execution is never
\* called, with only the execute flag generation is never called, and with
\* neither flag or both, execution is called once generation has returned,
\* whatever its return code.
C30_PipelineOrder ==
    pipe.pc # "idle" =>
        /\ IsSubseq(PipeCalled, PipeOrder)
        /\ (\E k \in 1..Len(PipeCalled) :
               PipeCalled[k] \in {"run_prompt_from_description", "run_execute"}) =>
              /\ SubSeq(PipeCalled, 1, 2) = <<"setup_dataset", "setup_embeddings">>
              /\ pipe.dataset_result \in {"success", "already_exists"}
              /\ pipe.embeddings_result \in {"success", "already_exists"}
        /\ pipe.dataset_result \notin {NoStatus, "success", "already_exists"} =>
              PipeCalled = <<"setup_dataset">>
        /\ pipe.embeddings_result \notin {NoStatus, "success", "already_exists"} =>
              PipeCalled = <<"setup_dataset", "setup_embeddings">>
        /\ (pipe.generate_task /\ ~pipe.execute) =>
              "run_execute" \notin Range(PipeCalled)
        /\ (pipe.execute /\ ~pipe.generate_task) =>
              "run_prompt_from_description" \notin Range(PipeCalled)
        /\ (pipe.generate_task = pipe.execute /\ pipe.result1 # NoCode) =>
              \/ pipe.pc = "execution" /\ Len(PipeCalled) = 3
              \/ PipeCalled = PipeOrder
        /\ pipe.pc = "completed" =>
              PipeCalled = SelectSeq(PipeOrder,
                  LAMBDA fn : \/ fn \in {"setup_dataset", "setup_embeddings"}
                              \/ fn = "run_prompt_from_description"
                                   /\ ~(pipe.execute /\ ~pipe.generate_task)
                              \/ fn = "run_execute"
                                   /\ ~(pipe.generate_task /\ ~pipe.execute))

\* C30 witness: with neither flag set all four steps were called in order,
\* the generation having returned code 1
C30_Witness ==
    /\ pipe.pc = "completed"
    /\ ~pipe.generate_task /\ ~pipe.execute
    /\ pipe.result1 = 1
    /\ PipeCalled = PipeOrder

====
